---- MODULE Spec2Model ----
(***************************************************************************)
(* Verification model of argonaut's bind command (package internal/bind):  *)
(*   - the shell-literal encoders of shell.go,                             *)
(*   - the IntRange interval algebra and its literal parser/printer,       *)
(*   - the binding pass of run.go (value resolution, validation, export).  *)
(* Strings are sequences of one-character strings, so that quoting,        *)
(* splitting and parsing are computed character by character as the Go     *)
(* code does.                                                              *)
(***************************************************************************)
EXTENDS Integers, Sequences, FiniteSets, TLC

VARIABLES
    value,      \* shell section: the value string handed to an encoder
    literal,    \* shell section: the literal the encoder returned
    shell,      \* shell section: which encoder ran ("none" before)
    text,       \* range-literal section: the string handed to NewIntRange
    parsed,     \* range-literal section: result of NewIntRange
    reparsed,   \* range-literal section: result of NewIntRange(ToParseableString)
    rng,        \* range-algebra section: the receiver r
    oth,        \* range-algebra section: the argument range o
    num,        \* range-algebra section: the argument integer n
    rop,        \* range-algebra section: the operation applied ("new" before)
    rres,       \* range-algebra section: the operation's result
    declared,   \* bind section: flag name -> the options declared before "--"
    cmdspec,    \* bind section: the CmdSpec collectSpecs returned
    supplied,   \* bind section: flag name -> what the user passed after "--"
    pending,    \* bind section: flags the RunE loop has not visited yet
    flagName,   \* bind section: the flag of the latest iteration of that loop
    pc,         \* bind section: position of the run
    stdout,     \* bind section: the text written to standard output
    ftext,      \* filter section: the string handed to NewNaturalRangeFilter
    filter,     \* filter section: the NaturalRangeFilter under study
    fop,        \* filter section: the method applied last ("new" before)
    fres,       \* filter section: what the methods applied so far returned
    cfmt,       \* codec section: the MultiFormat list
    cvals,      \* codec section: the string list handed to the codec
    cop,        \* codec section: the function applied ("new" before)
    cres,       \* codec section: what it returned
    argsRangeStr, \* args section: the --args-range text of the declaration
    argsRange,  \* args section: what collectSpecs made of it
    args,       \* args section: the number of positional arguments of the run (-1 before)
    argsErr     \* args section: whether the Args validator rejected the run

vars == <<value, literal, shell, text, parsed, reparsed, rng, oth, num, rop, rres,
          declared, cmdspec, supplied, pending, flagName, pc, stdout,
          ftext, filter, fop, fres, cfmt, cvals, cop, cres,
          argsRangeStr, argsRange, args, argsErr>>

shellVars == <<value, literal, shell>>
parseVars == <<text, parsed, reparsed>>
rangeVars == <<rng, oth, num, rop, rres>>
bindVars  == <<declared, cmdspec, supplied, pending, flagName, pc, stdout>>
filterVars == <<ftext, filter, fop, fres>>
codecVars == <<cfmt, cvals, cop, cres>>
argsVars == <<argsRangeStr, argsRange, args, argsErr>>

-----------------------------------------------------------------------------
(* Bounds of the model *)

\* longest value string handed to the shell encoders
MaxLen == 4

\* largest absolute value of a number written in a range literal
MaxNum == 2

\* largest absolute value of a bound of an IntRange
MaxVal == 2

-----------------------------------------------------------------------------
(* Strings as sequences of characters *)

LF == "\n"
CR == "\r"
SQ == "'"
DQ == "\""
BS == "\\"
\* the backquote character (a TLA+ string cannot hold it, so it is named)
BT == "BACKQUOTE"

\* all strings over alphabet cs of length at most n
StrSet(cs, n) == UNION {[1..k -> cs] : k \in 0..n}

\* strings.Contains(s, c) for a one-character c
StrContains(s, c) == \E i \in 1..Len(s) : s[i] = c

RECURSIVE ReplaceAll(_, _, _)
\* strings.ReplaceAll(s, c, new) for a one-character c
ReplaceAll(s, c, new) ==
    IF s = <<>> THEN <<>>
    ELSE (IF Head(s) = c THEN new ELSE <<Head(s)>>) \o ReplaceAll(Tail(s), c, new)

RECURSIVE Join(_, _)
\* strings.Join(parts, sep)
Join(parts, sep) ==
    IF parts = <<>> THEN <<>>
    ELSE IF Len(parts) = 1 THEN parts[1]
    ELSE parts[1] \o sep \o Join(Tail(parts), sep)

\* a local variable: F applied to the value assigned to it
With(x, F(_)) == F(x)

\* marker a reader returns for text that is not a well-formed literal
Malformed == <<"<malformed>">>

-----------------------------------------------------------------------------
(* shell.go: the literal encoders *)

RECURSIVE SplitLoop(_, _, _, _)
\* the loop of splitPreserveNewlines: i is the index, buf the builder
SplitLoop(s, i, buf, parts) ==
    IF i > Len(s)
    THEN (IF Len(buf) > 0 THEN Append(parts, buf) ELSE parts)
    ELSE IF s[i] = CR \/ s[i] = LF
         THEN LET flushed == IF Len(buf) > 0 THEN Append(parts, buf) ELSE parts
              IN  IF s[i] = CR /\ i + 1 <= Len(s) /\ s[i + 1] = LF
                  THEN SplitLoop(s, i + 2, <<>>, Append(flushed, <<CR, LF>>))
                  ELSE SplitLoop(s, i + 1, <<>>, Append(flushed, <<s[i]>>))
         ELSE SplitLoop(s, i + 1, Append(buf, s[i]), parts)

splitPreserveNewlines(s) ==
    IF s = <<>> THEN << <<>> >> ELSE SplitLoop(s, 1, <<>>, <<>>)

\* the literal with an embedded single quote left as it is
buildShellLiteralUnescaped(s) ==
    IF s = <<>> THEN <<SQ, SQ>> ELSE <<SQ>> \o s \o <<SQ>>

buildShellLiteral(s) ==
    IF s = <<>> THEN <<SQ, SQ>>
    ELSE IF ~StrContains(s, SQ) THEN <<SQ>> \o s \o <<SQ>>
    ELSE <<SQ>> \o ReplaceAll(s, SQ, <<SQ, BS, SQ, SQ>>) \o <<SQ>>

\* the segment with every newline sequence written as the LF escape
PowershellSegmentOnlyLF(p) ==
    IF p \in {<<LF>>, <<CR>>, <<CR, LF>>} THEN <<DQ, BT, "n", DQ>>
    ELSE IF p = <<>> THEN <<SQ, SQ>>
    ELSE <<SQ>> \o ReplaceAll(p, SQ, <<SQ, SQ>>) \o <<SQ>>

\* one element of out in buildPowershellLiteral
PowershellSegment(p) ==
    IF p = <<LF>> THEN <<DQ, BT, "n", DQ>>
    ELSE IF p = <<CR>> THEN <<DQ, BT, "r", DQ>>
    ELSE IF p = <<CR, LF>> THEN <<DQ, BT, "r", BT, "n", DQ>>
    ELSE IF p = <<>> THEN <<SQ, SQ>>
    ELSE <<SQ>> \o ReplaceAll(p, SQ, <<SQ, SQ>>) \o <<SQ>>

buildPowershellLiteral(s) ==
    IF s = <<>> THEN <<SQ, SQ>>
    ELSE With(splitPreserveNewlines(s), LAMBDA parts :
             Join([i \in 1..Len(parts) |-> PowershellSegment(parts[i])], <<" ", "+", " ">>))

\* one element of out in buildCmdLiteral
CmdSegment(p) ==
    IF p = <<LF>> THEN <<DQ, BS, BS, "n", DQ>>
    ELSE IF p = <<CR>> THEN <<DQ, BS, BS, "r", DQ>>
    ELSE IF p = <<CR, LF>> THEN <<DQ, BS, BS, "r", BS, BS, "n", DQ>>
    ELSE With(ReplaceAll(p, DQ, <<BS, DQ>>), LAMBDA escaped :
             IF escaped = <<>> THEN <<DQ, DQ>> ELSE <<DQ>> \o escaped \o <<DQ>>)

buildCmdLiteral(s) ==
    With(splitPreserveNewlines(s), LAMBDA parts :
        Join([i \in 1..Len(parts) |-> CmdSegment(parts[i])], <<>>))

-----------------------------------------------------------------------------
(* How the target shells read a literal *)

RECURSIVE PosixRead(_, _, _)
\* POSIX quoting: text between single quotes is verbatim, an unquoted
\* backslash makes the next character literal, pieces concatenate.
PosixRead(lit, i, quoted) ==
    IF i > Len(lit) THEN (IF quoted THEN Malformed ELSE <<>>)
    ELSE IF quoted
         THEN IF lit[i] = SQ THEN PosixRead(lit, i + 1, FALSE)
              ELSE <<lit[i]>> \o PosixRead(lit, i + 1, TRUE)
         ELSE IF lit[i] = SQ THEN PosixRead(lit, i + 1, TRUE)
              ELSE IF lit[i] = BS /\ i + 1 <= Len(lit)
                   THEN <<lit[i + 1]>> \o PosixRead(lit, i + 2, FALSE)
                   ELSE Malformed

RECURSIVE PowershellRead(_, _, _)
\* PowerShell expression: segments joined by " + "; a single-quoted segment
\* is verbatim with two quotes for one; a double-quoted segment reads the
\* backquote escapes for n and r as LF and CR.  mode is "expr" (a segment
\* is expected), "sq", "dq" or "plus" (a segment just ended).
PowershellRead(lit, i, mode) ==
    IF i > Len(lit) THEN (IF mode = "plus" THEN <<>> ELSE Malformed)
    ELSE IF mode = "expr"
         THEN IF lit[i] = SQ THEN PowershellRead(lit, i + 1, "sq")
              ELSE IF lit[i] = DQ THEN PowershellRead(lit, i + 1, "dq")
              ELSE Malformed
    ELSE IF mode = "sq"
         THEN IF lit[i] = SQ
              THEN IF i + 1 <= Len(lit) /\ lit[i + 1] = SQ
                   THEN <<SQ>> \o PowershellRead(lit, i + 2, "sq")
                   ELSE PowershellRead(lit, i + 1, "plus")
              ELSE <<lit[i]>> \o PowershellRead(lit, i + 1, "sq")
    ELSE IF mode = "dq"
         THEN IF lit[i] = DQ THEN PowershellRead(lit, i + 1, "plus")
              ELSE IF lit[i] = BT
                   THEN IF i + 1 <= Len(lit) /\ lit[i + 1] = "n"
                        THEN <<LF>> \o PowershellRead(lit, i + 2, "dq")
                        ELSE IF i + 1 <= Len(lit) /\ lit[i + 1] = "r"
                             THEN <<CR>> \o PowershellRead(lit, i + 2, "dq")
                             ELSE Malformed
                   ELSE <<lit[i]>> \o PowershellRead(lit, i + 1, "dq")
    ELSE \* "plus": the separator " + " must follow
         IF i + 2 <= Len(lit) /\ lit[i] = " " /\ lit[i + 1] = "+" /\ lit[i + 2] = " "
         THEN PowershellRead(lit, i + 3, "expr")
         ELSE Malformed

-----------------------------------------------------------------------------
(* range.go: IntRange *)

\* the IntRange struct
IntRange(min, minInclude, max, maxInclude, minUnbounded, maxUnbounded) ==
    [Min |-> min, MinInclude |-> minInclude, Max |-> max, MaxInclude |-> maxInclude,
     MinUnbounded |-> minUnbounded, MaxUnbounded |-> maxUnbounded]

NewUnboundedIntRange == IntRange(0, FALSE, 0, FALSE, TRUE, TRUE)
NewSingleValueIntRange(n) == IntRange(n, TRUE, n, TRUE, FALSE, FALSE)
NewGreaterOrEqualThanIntRange(n) == IntRange(n, TRUE, 0, FALSE, FALSE, TRUE)
NewLessOrEqualThanIntRange(n) == IntRange(0, FALSE, n, TRUE, TRUE, FALSE)
NewInclusiveIntRange(min, max) == IntRange(min, TRUE, max, TRUE, FALSE, FALSE)

IsValid(r) ==
    IF r.MinUnbounded /\ r.MinInclude THEN FALSE
    ELSE IF r.MaxUnbounded /\ r.MaxInclude THEN FALSE
    ELSE IF ~r.MinUnbounded /\ ~r.MaxUnbounded
         THEN IF r.Min > r.Max THEN FALSE
              ELSE IF r.Min = r.Max THEN r.MinInclude /\ r.MaxInclude
              ELSE IF r.Max - r.Min = 1 /\ ~r.MinInclude /\ ~r.MaxInclude THEN FALSE
              ELSE TRUE
         ELSE TRUE

\* the bound comparisons of Contains without its validity check
ContainsUnchecked(r, n) ==
    IF ~r.MinUnbounded /\ r.MinInclude /\ n < r.Min THEN FALSE
    ELSE IF ~r.MinUnbounded /\ ~r.MinInclude /\ n <= r.Min THEN FALSE
    ELSE IF ~r.MaxUnbounded /\ r.MaxInclude /\ n > r.Max THEN FALSE
    ELSE IF ~r.MaxUnbounded /\ ~r.MaxInclude /\ n >= r.Max THEN FALSE
    ELSE TRUE

Contains(r, n) ==
    IF ~IsValid(r) THEN FALSE
    ELSE IF ~r.MinUnbounded /\ r.MinInclude /\ n < r.Min THEN FALSE
    ELSE IF ~r.MinUnbounded /\ ~r.MinInclude /\ n <= r.Min THEN FALSE
    ELSE IF ~r.MaxUnbounded /\ r.MaxInclude /\ n > r.Max THEN FALSE
    ELSE IF ~r.MaxUnbounded /\ ~r.MaxInclude /\ n >= r.Max THEN FALSE
    ELSE TRUE

\* Lowest and Highest return (value, exists)
Lowest(r) ==
    IF r.MinUnbounded THEN [v |-> 0, ok |-> FALSE]
    ELSE IF r.MinInclude THEN [v |-> r.Min, ok |-> TRUE]
    ELSE [v |-> r.Min + 1, ok |-> TRUE]

Highest(r) ==
    IF r.MaxUnbounded THEN [v |-> 0, ok |-> FALSE]
    ELSE IF r.MaxInclude THEN [v |-> r.Max, ok |-> TRUE]
    ELSE [v |-> r.Max - 1, ok |-> TRUE]

HasIntesect(r, other) ==
    IF ~IsValid(r) \/ ~IsValid(other) THEN FALSE
    ELSE IF ~r.MaxUnbounded /\ ~other.MinUnbounded /\ Highest(r).v < Lowest(other).v
         THEN FALSE
    ELSE IF ~r.MinUnbounded /\ ~other.MaxUnbounded /\ Lowest(r).v > Highest(other).v
         THEN FALSE
    ELSE TRUE

\* Intersect without the branches for equal bounds: the new bound keeps
\* the zero values it was declared with
IntersectNoTie(r, other) ==
    LET lower ==
            IF r.MinUnbounded /\ other.MinUnbounded
            THEN [v |-> 0, inc |-> FALSE, unb |-> TRUE]
            ELSE IF r.MinUnbounded
            THEN [v |-> other.Min, inc |-> other.MinInclude, unb |-> FALSE]
            ELSE IF other.MinUnbounded
            THEN [v |-> r.Min, inc |-> r.MinInclude, unb |-> FALSE]
            ELSE IF r.Min > other.Min
            THEN [v |-> r.Min, inc |-> r.MinInclude, unb |-> FALSE]
            ELSE IF r.Min < other.Min
            THEN [v |-> other.Min, inc |-> other.MinInclude, unb |-> FALSE]
            ELSE [v |-> 0, inc |-> FALSE, unb |-> FALSE]
        upper ==
            IF r.MaxUnbounded /\ other.MaxUnbounded
            THEN [v |-> 0, inc |-> FALSE, unb |-> TRUE]
            ELSE IF r.MaxUnbounded
            THEN [v |-> other.Max, inc |-> other.MaxInclude, unb |-> FALSE]
            ELSE IF other.MaxUnbounded
            THEN [v |-> r.Max, inc |-> r.MaxInclude, unb |-> FALSE]
            ELSE IF r.Max < other.Max
            THEN [v |-> r.Max, inc |-> r.MaxInclude, unb |-> FALSE]
            ELSE IF r.Max > other.Max
            THEN [v |-> other.Max, inc |-> other.MaxInclude, unb |-> FALSE]
            ELSE [v |-> 0, inc |-> FALSE, unb |-> FALSE]
    IN  IntRange(lower.v, lower.inc, upper.v, upper.inc, lower.unb, upper.unb)

Intersect(r, other) ==
    LET lower ==
            IF r.MinUnbounded /\ other.MinUnbounded
            THEN [v |-> 0, inc |-> FALSE, unb |-> TRUE]
            ELSE IF r.MinUnbounded
            THEN [v |-> other.Min, inc |-> other.MinInclude, unb |-> FALSE]
            ELSE IF other.MinUnbounded
            THEN [v |-> r.Min, inc |-> r.MinInclude, unb |-> FALSE]
            ELSE IF r.Min > other.Min
            THEN [v |-> r.Min, inc |-> r.MinInclude, unb |-> FALSE]
            ELSE IF r.Min < other.Min
            THEN [v |-> other.Min, inc |-> other.MinInclude, unb |-> FALSE]
            ELSE [v |-> r.Min, inc |-> r.MinInclude, unb |-> FALSE]
        upper ==
            IF r.MaxUnbounded /\ other.MaxUnbounded
            THEN [v |-> 0, inc |-> FALSE, unb |-> TRUE]
            ELSE IF r.MaxUnbounded
            THEN [v |-> other.Max, inc |-> other.MaxInclude, unb |-> FALSE]
            ELSE IF other.MaxUnbounded
            THEN [v |-> r.Max, inc |-> r.MaxInclude, unb |-> FALSE]
            ELSE IF r.Max < other.Max
            THEN [v |-> r.Max, inc |-> r.MaxInclude, unb |-> FALSE]
            ELSE IF r.Max > other.Max
            THEN [v |-> other.Max, inc |-> other.MaxInclude, unb |-> FALSE]
            ELSE [v |-> r.Max, inc |-> r.MaxInclude, unb |-> FALSE]
    IN  IntRange(lower.v, lower.inc, upper.v, upper.inc, lower.unb, upper.unb)

\* Substract with the residual intervals ending at other's bounds with
\* other's own inclusiveness
SubstractBoundsShared(r, other) ==
    IF ~HasIntesect(r, other) THEN <<r>>
    ELSE LET leftRange  == IntRange(r.Min, r.MinInclude, other.Min, other.MinInclude,
                                    r.MinUnbounded, FALSE)
             rightRange == IntRange(other.Max, other.MaxInclude, r.Max, r.MaxInclude,
                                    FALSE, r.MaxUnbounded)
             left  == IF /\ ~other.MinUnbounded
                         /\ (~Lowest(r).ok \/ Lowest(r).v < Lowest(other).v)
                         /\ IsValid(leftRange)
                      THEN <<leftRange>> ELSE <<>>
             right == IF /\ ~other.MaxUnbounded
                         /\ (~Highest(r).ok \/ Highest(r).v > Highest(other).v)
                         /\ IsValid(rightRange)
                      THEN <<rightRange>> ELSE <<>>
         IN  left \o right

Substract(r, other) ==
    IF ~HasIntesect(r, other) THEN <<r>>
    ELSE LET leftRange  == IntRange(r.Min, r.MinInclude, other.Min, ~other.MinInclude,
                                    r.MinUnbounded, FALSE)
             rightRange == IntRange(other.Max, ~other.MaxInclude, r.Max, r.MaxInclude,
                                    FALSE, r.MaxUnbounded)
             left  == IF /\ ~other.MinUnbounded
                         /\ (~Lowest(r).ok \/ Lowest(r).v < Lowest(other).v)
                         /\ IsValid(leftRange)
                      THEN <<leftRange>> ELSE <<>>
             right == IF /\ ~other.MaxUnbounded
                         /\ (~Highest(r).ok \/ Highest(r).v > Highest(other).v)
                         /\ IsValid(rightRange)
                      THEN <<rightRange>> ELSE <<>>
         IN  left \o right

TryMyBestToClosedInterval(r) ==
    IF Lowest(r).ok /\ Highest(r).ok THEN NewInclusiveIntRange(Lowest(r).v, Highest(r).v)
    ELSE IF Lowest(r).ok THEN NewGreaterOrEqualThanIntRange(Lowest(r).v)
    ELSE IF Highest(r).ok THEN NewLessOrEqualThanIntRange(Highest(r).v)
    ELSE NewUnboundedIntRange

\* the effective bounds the comparison predicates test
maxAllowed(r) == IF ~r.MaxInclude THEN r.Max - 1 ELSE r.Max
minAllowed(r) == IF ~r.MinInclude THEN r.Min + 1 ELSE r.Min

\* LessThan comparing the written upper bound, whether inclusive or not
LessThanWrittenBound(r, n) ==
    IF ~IsValid(r) THEN FALSE ELSE IF r.MaxUnbounded THEN FALSE ELSE r.Max < n

LessThan(r, n) ==
    IF ~IsValid(r) THEN FALSE ELSE IF r.MaxUnbounded THEN FALSE ELSE maxAllowed(r) < n

LessOrEqualThan(r, n) ==
    IF ~IsValid(r) THEN FALSE ELSE IF r.MaxUnbounded THEN FALSE ELSE maxAllowed(r) <= n

GreaterThan(r, n) ==
    IF ~IsValid(r) THEN FALSE ELSE IF r.MinUnbounded THEN FALSE ELSE minAllowed(r) > n

GreaterOrEqualThan(r, n) ==
    IF ~IsValid(r) THEN FALSE ELSE IF r.MinUnbounded THEN FALSE ELSE minAllowed(r) >= n

IsSingleValue(r) ==
    ~r.MinUnbounded /\ ~r.MaxUnbounded /\ r.Min = r.Max /\ r.MinInclude /\ r.MaxInclude

-----------------------------------------------------------------------------
(* range.go: the literal grammar of IntRange *)

\* the characters strings.TrimSpace removes
IsSpace(c) == c \in {" ", "\t", LF, CR}

RECURSIVE TrimLeft(_)
TrimLeft(s) == IF s # <<>> /\ IsSpace(Head(s)) THEN TrimLeft(Tail(s)) ELSE s

RECURSIVE TrimRight(_)
TrimRight(s) ==
    IF s # <<>> /\ IsSpace(s[Len(s)]) THEN TrimRight(SubSeq(s, 1, Len(s) - 1)) ELSE s

\* strings.TrimSpace
TrimSpace(s) == TrimRight(TrimLeft(s))

\* strings.HasPrefix
HasPrefix(s, p) == Len(s) >= Len(p) /\ SubSeq(s, 1, Len(p)) = p

\* s[k:] for a 0-based k
From(s, k) == SubSeq(s, k + 1, Len(s))

Digits == <<"0", "1", "2", "3", "4", "5", "6", "7", "8", "9">>
IsDigit(c) == \E d \in 1..10 : Digits[d] = c
DigitValue(c) == (CHOOSE d \in 1..10 : Digits[d] = c) - 1

RECURSIVE DigitsValue(_, _)
\* the number a digit string writes, acc being the value read so far
DigitsValue(s, acc) ==
    IF s = <<>> THEN acc ELSE DigitsValue(Tail(s), acc * 10 + DigitValue(Head(s)))

\* strconv.Atoi: an optional sign and at least one decimal digit
Atoi(s) ==
    LET signed == s # <<>> /\ Head(s) \in {"+", "-"}
        body   == IF signed THEN Tail(s) ELSE s
    IN  IF body = <<>> \/ \E i \in 1..Len(body) : ~IsDigit(body[i])
        THEN [ok |-> FALSE, n |-> 0]
        ELSE [ok |-> TRUE,
              n  |-> IF signed /\ Head(s) = "-" THEN 0 - DigitsValue(body, 0)
                     ELSE DigitsValue(body, 0)]

RECURSIVE NatToString(_)
NatToString(n) ==
    IF n < 10 THEN <<Digits[n + 1]>> ELSE NatToString(n \div 10) \o <<Digits[(n % 10) + 1]>>

\* strconv.Itoa
Itoa(n) == IF n < 0 THEN <<"-">> \o NatToString(0 - n) ELSE NatToString(n)

\* the parseInt helper of NewIntRange
parseInt(tok) ==
    IF TrimSpace(tok) = <<>> THEN [ok |-> FALSE, n |-> 0] ELSE Atoi(TrimSpace(tok))

\* strings.SplitN(s, ",", 2)
SplitN2(s) ==
    IF ~StrContains(s, ",") THEN <<s>>
    ELSE LET k == CHOOSE i \in 1..Len(s) : s[i] = "," /\ \A j \in 1..(i - 1) : s[j] # ","
         IN  <<SubSeq(s, 1, k - 1), SubSeq(s, k + 1, Len(s))>>

ParseError == [ok |-> FALSE, r |-> NewUnboundedIntRange]
ParseOk(r) == [ok |-> TRUE, r |-> r]

\* the interval-notation branch of NewIntRange
ParseInterval(s) ==
    LET leftInclusive  == s[1] = "["
        rightInclusive == s[Len(s)] = "]"
        inner == TrimSpace(SubSeq(s, 2, Len(s) - 1))
        parts == SplitN2(inner)
    IN  IF Len(parts) # 2 THEN ParseError
        ELSE LET left  == TrimSpace(parts[1])
                 right == TrimSpace(parts[2])
                 l == Atoi(left)
                 h == Atoi(right)
                 r == IntRange(IF left = <<>> THEN 0 ELSE l.n,
                               IF left = <<>> THEN FALSE ELSE leftInclusive,
                               IF right = <<>> THEN 0 ELSE h.n,
                               IF right = <<>> THEN FALSE ELSE rightInclusive,
                               left = <<>>, right = <<>>)
             IN  IF left = <<>> /\ leftInclusive THEN ParseError
                 ELSE IF left # <<>> /\ ~l.ok THEN ParseError
                 ELSE IF right = <<>> /\ rightInclusive THEN ParseError
                 ELSE IF right # <<>> /\ ~h.ok THEN ParseError
                 ELSE IF ~r.MinUnbounded /\ ~r.MaxUnbounded /\ r.Min > r.Max
                      THEN ParseError
                 ELSE IF /\ ~r.MinUnbounded /\ ~r.MaxUnbounded /\ r.Min = r.Max
                         /\ (~r.MinInclude \/ ~r.MaxInclude)
                      THEN ParseError
                 ELSE ParseOk(r)

NewIntRange(v, emptyAsUnbounded) ==
    IF v = <<>>
    THEN (IF emptyAsUnbounded THEN ParseOk(NewUnboundedIntRange) ELSE ParseError)
    ELSE LET s == TrimSpace(v)
             lo(n, inc) == IntRange(n, inc, 0, FALSE, FALSE, TRUE)
             hi(n, inc) == IntRange(0, FALSE, n, inc, TRUE, FALSE)
         IN  IF HasPrefix(s, <<"=">>)
             THEN LET p == parseInt(From(s, 1))
                  IN  IF p.ok THEN ParseOk(NewSingleValueIntRange(p.n)) ELSE ParseError
             ELSE IF HasPrefix(s, <<">", "=">>)
             THEN LET p == parseInt(From(s, 2))
                  IN  IF p.ok THEN ParseOk(lo(p.n, TRUE)) ELSE ParseError
             ELSE IF HasPrefix(s, <<">">>)
             THEN LET p == parseInt(From(s, 1))
                  IN  IF p.ok THEN ParseOk(lo(p.n, FALSE)) ELSE ParseError
             ELSE IF HasPrefix(s, <<"<", "=">>)
             THEN LET p == parseInt(From(s, 2))
                  IN  IF p.ok THEN ParseOk(hi(p.n, TRUE)) ELSE ParseError
             ELSE IF HasPrefix(s, <<"<">>)
             THEN LET p == parseInt(From(s, 1))
                  IN  IF p.ok THEN ParseOk(hi(p.n, FALSE)) ELSE ParseError
             ELSE IF Len(s) >= 2 /\ s[1] \in {"(", "["} /\ s[Len(s)] \in {")", "]"}
             THEN ParseInterval(s)
             ELSE IF Atoi(s).ok THEN ParseOk(NewSingleValueIntRange(Atoi(s).n))
             ELSE ParseError

\* the infinity sign String() shows (a TLA+ string cannot hold it, so it is named)
INFTY == "INFINITY"

format(r, showInfty) ==
    IF ~r.MinUnbounded /\ ~r.MaxUnbounded /\ r.Min = r.Max /\ r.MinInclude /\ r.MaxInclude
    THEN Itoa(r.Min)
    ELSE IF r.MinUnbounded /\ ~r.MaxUnbounded
    THEN (IF r.MaxInclude THEN <<"<", "=">> ELSE <<"<">>) \o Itoa(r.Max)
    ELSE IF r.MaxUnbounded /\ ~r.MinUnbounded
    THEN (IF r.MinInclude THEN <<">", "=">> ELSE <<">">>) \o Itoa(r.Min)
    ELSE LET leftB    == IF r.MinInclude THEN "[" ELSE "("
             rightB   == IF r.MaxInclude THEN "]" ELSE ")"
             leftStr  == IF r.MinUnbounded
                         THEN (IF showInfty THEN <<"-", INFTY>> ELSE <<>>)
                         ELSE Itoa(r.Min)
             rightStr == IF r.MaxUnbounded
                         THEN (IF showInfty THEN <<INFTY>> ELSE <<>>)
                         ELSE Itoa(r.Max)
         IN  <<leftB>> \o leftStr \o <<",">> \o rightStr \o <<rightB>>

\* the printed form with the infinity signs of String()
ToParseableStringWithInfinity(r) == format(r, TRUE)

ToParseableString(r) == format(r, FALSE)

-----------------------------------------------------------------------------
(* type.go: the multi-value codec *)

\* a format name is a whole string; the values are character sequences
AllowedMultiFormats == <<"comma", "newline", "space", "json">>

\* checkInStringSlice
checkInStringSlice(v, slice) == \E i \in 1..Len(slice) : slice[i] = v

\* checkMultiFormat: TRUE when it returns no error
checkMultiFormat(formats) ==
    /\ \A i \in 1..Len(formats) : checkInStringSlice(formats[i], AllowedMultiFormats)
    /\ ~(checkInStringSlice("json", formats) /\ Len(formats) > 1)

RECURSIVE FieldsFunc(_, _, _)
\* strings.FieldsFunc(s, isSep): the maximal runs of non-separators; cur is
\* the field being read
FieldsFunc(s, seps, cur) ==
    IF s = <<>> THEN (IF cur = <<>> THEN <<>> ELSE <<cur>>)
    ELSE IF Head(s) \in seps
         THEN (IF cur = <<>> THEN <<>> ELSE <<cur>>) \o FieldsFunc(Tail(s), seps, <<>>)
         ELSE FieldsFunc(Tail(s), seps, Append(cur, Head(s)))

\* splitAndTrim: a fragment is replaced by its trimmed form only when that
\* form is not empty
splitAndTrim(s, seps) ==
    With(FieldsFunc(s, seps, <<>>), LAMBDA parts :
        [i \in 1..Len(parts) |->
            With(TrimSpace(parts[i]), LAMBDA part : IF part # <<>> THEN part ELSE parts[i])])

RECURSIVE Flatten(_)
\* append(result, xs...) over a list of lists
Flatten(lists) == IF lists = <<>> THEN <<>> ELSE Head(lists) \o Flatten(Tail(lists))

\* the separator characters ParseMultiValues collects for the formats
Separators(formats) ==
    UNION {IF formats[i] = "comma" THEN {","}
           ELSE IF formats[i] = "newline" THEN {CR, LF}
           ELSE IF formats[i] = "space" THEN {" "}
           ELSE {} : i \in 1..Len(formats)}

JsonFail == [ok |-> FALSE, val |-> <<>>, next |-> 0]

RECURSIVE JsonStringBody(_, _, _)
\* the characters of a JSON string up to its closing quote, from index j
JsonStringBody(s, j, acc) ==
    IF j > Len(s) THEN JsonFail
    ELSE IF s[j] = DQ THEN [ok |-> TRUE, val |-> acc, next |-> j + 1]
    ELSE IF s[j] \in {LF, CR, "\t"} THEN JsonFail
    ELSE IF s[j] = BS
         THEN IF j + 1 > Len(s) THEN JsonFail
              ELSE IF s[j + 1] \in {DQ, BS, "/"}
                   THEN JsonStringBody(s, j + 2, Append(acc, s[j + 1]))
              ELSE IF s[j + 1] = "n" THEN JsonStringBody(s, j + 2, Append(acc, LF))
              ELSE IF s[j + 1] = "r" THEN JsonStringBody(s, j + 2, Append(acc, CR))
              ELSE IF s[j + 1] = "t" THEN JsonStringBody(s, j + 2, Append(acc, "\t"))
              ELSE JsonFail
    ELSE JsonStringBody(s, j + 1, Append(acc, s[j]))

\* a JSON string starting at index i
JsonString(s, i) ==
    IF i <= Len(s) /\ s[i] = DQ THEN JsonStringBody(s, i + 1, <<>>) ELSE JsonFail

RECURSIVE SkipSpace(_, _)
SkipSpace(s, i) == IF i <= Len(s) /\ IsSpace(s[i]) THEN SkipSpace(s, i + 1) ELSE i

RECURSIVE JsonElements(_, _, _)
\* the elements of a JSON array of strings after its opening bracket, index
\* i standing at an element
JsonElements(s, i, acc) ==
    With(JsonString(s, i), LAMBDA e :
        IF ~e.ok THEN JsonFail
        ELSE With(SkipSpace(s, e.next), LAMBDA k :
                 IF k > Len(s) THEN JsonFail
                 ELSE IF s[k] = "]"
                      THEN [ok |-> TRUE, val |-> Append(acc, e.val), next |-> k + 1]
                 ELSE IF s[k] = ","
                      THEN JsonElements(s, SkipSpace(s, k + 1), Append(acc, e.val))
                 ELSE JsonFail))

\* the literal null, which json.Unmarshal accepts for every target
JsonNull == <<"n", "u", "l", "l">>

\* json.Unmarshal(raw, &arr) for arr []string and a trimmed raw
UnmarshalStrings(raw) ==
    IF raw = JsonNull THEN [ok |-> TRUE, val |-> <<>>]
    ELSE IF raw = <<>> \/ raw[1] # "[" THEN [ok |-> FALSE, val |-> <<>>]
    ELSE With(SkipSpace(raw, 2), LAMBDA j :
             With(IF j <= Len(raw) /\ raw[j] = "]"
                  THEN [ok |-> TRUE, val |-> <<>>, next |-> j + 1]
                  ELSE JsonElements(raw, j, <<>>),
                  LAMBDA a : IF a.ok /\ a.next > Len(raw)
                             THEN [ok |-> TRUE, val |-> a.val]
                             ELSE [ok |-> FALSE, val |-> <<>>]))

\* json.Unmarshal(raw, &s) for s string and a trimmed raw
UnmarshalString(raw) ==
    IF raw = JsonNull THEN [ok |-> TRUE, val |-> <<>>]
    ELSE With(JsonString(raw, 1), LAMBDA e :
             IF e.ok /\ e.next > Len(raw)
             THEN [ok |-> TRUE, val |-> e.val]
             ELSE [ok |-> FALSE, val |-> <<>>])

\* what one raw occurrence contributes under the json format
JsonOccurrence(raw) ==
    With(TrimSpace(raw), LAMBDA t :
        IF t = <<>> THEN [ok |-> TRUE, val |-> <<>>]
        ELSE With(UnmarshalStrings(t), LAMBDA arr :
                 IF arr.ok THEN arr
                 ELSE With(UnmarshalString(t), LAMBDA str :
                          IF str.ok THEN [ok |-> TRUE, val |-> <<str.val>>]
                          ELSE [ok |-> FALSE, val |-> <<>>])))

\* a []string that may be nil
Slice(isNil, vals) == [isNil |-> isNil, vals |-> vals]
NilSlice == Slice(TRUE, <<>>)

\* the result ParseMultiValues builds from what each raw value contributes
Appended(per) ==
    IF \E i \in 1..Len(per) : ~per[i].ok THEN [err |-> TRUE, out |-> NilSlice]
    ELSE With(Flatten([i \in 1..Len(per) |-> per[i].val]), LAMBDA result :
             [err |-> FALSE, out |-> Slice(result = <<>>, result)])

\* ParseMultiValues: err, and the slice returned (nil when nothing was
\* appended to the result)
ParseMultiValues(formats, rawValues) ==
    IF rawValues.isNil THEN [err |-> FALSE, out |-> NilSlice]
    ELSE IF Len(rawValues.vals) = 0 THEN [err |-> FALSE, out |-> Slice(FALSE, <<>>)]
    ELSE IF Len(formats) = 0 THEN [err |-> FALSE, out |-> rawValues]
    ELSE IF checkInStringSlice("json", formats) /\ Len(formats) > 1
    THEN [err |-> TRUE, out |-> NilSlice]
    ELSE IF \E i \in 1..Len(formats) :
                formats[i] \notin {"json", "comma", "newline", "space"}
    THEN [err |-> TRUE, out |-> NilSlice]
    ELSE Appended([i \in 1..Len(rawValues.vals) |->
                      IF checkInStringSlice("json", formats)
                      THEN JsonOccurrence(rawValues.vals[i])
                      ELSE [ok |-> TRUE,
                            val |-> splitAndTrim(rawValues.vals[i], Separators(formats))]])

RECURSIVE JsonEscape(_)
\* the body of a string as json.Marshal writes it
JsonEscape(s) ==
    IF s = <<>> THEN <<>>
    ELSE (IF Head(s) = DQ THEN <<BS, DQ>>
          ELSE IF Head(s) = BS THEN <<BS, BS>>
          ELSE IF Head(s) = LF THEN <<BS, "n">>
          ELSE IF Head(s) = CR THEN <<BS, "r">>
          ELSE IF Head(s) = "\t" THEN <<BS, "t">>
          ELSE <<Head(s)>>) \o JsonEscape(Tail(s))

\* json.Marshal(values) for a non-empty []string
MarshalStrings(vals) ==
    <<"[">> \o Join([i \in 1..Len(vals) |-> <<DQ>> \o JsonEscape(vals[i]) \o <<DQ>>], <<",">>)
        \o <<"]">>

\* OutputMultiValues: err, and the text returned
OutputMultiValues(formats, vals) ==
    LET isJson == checkInStringSlice("json", formats)
    IN  IF isJson /\ Len(formats) > 1 THEN [err |-> TRUE, out |-> <<>>]
        ELSE IF Len(vals) = 0
        THEN [err |-> FALSE, out |-> IF isJson THEN <<"[", "]">> ELSE <<>>]
        ELSE IF Len(formats) = 0 THEN [err |-> FALSE, out |-> Join(vals, <<",">>)]
        ELSE IF isJson THEN [err |-> FALSE, out |-> MarshalStrings(vals)]
        ELSE IF checkInStringSlice("comma", formats)
        THEN [err |-> FALSE, out |-> Join(vals, <<",">>)]
        ELSE IF checkInStringSlice("newline", formats)
        THEN [err |-> FALSE, out |-> Join(vals, <<LF>>)]
        ELSE IF checkInStringSlice("space", formats)
        THEN [err |-> FALSE, out |-> Join(vals, <<" ">>)]
        ELSE [err |-> TRUE, out |-> <<>>]

-----------------------------------------------------------------------------
(* run.go: one flag through collectSpecs and through the RunE loop *)

\* FlagSpec (type.go); Default, Choices and Value are slices that may be nil
FlagSpec(default, choices, required, multi, multiFormat, envName, export, val) ==
    [Default |-> default, Choices |-> choices, Required |-> required,
     Multi |-> multi, MultiFormat |-> multiFormat, EnvName |-> envName,
     Export |-> export, Value |-> val]

\* CmdSpec (type.go), the fields the binding pass and the export read
CmdSpec(envPrefix, shellType, flags) ==
    [EnvPrefix |-> envPrefix, ShellType |-> shellType, Flags |-> flags]

\* the options of one flag as the tokens before "--" declare them:
\* hasDefault is Changed("flag-<name>-default"), defaultRaw its occurrences,
\* choicesRaw the occurrences of "flag-<name>-choices", envName and export
\* the values of "flag-<name>-env-name" and "flag-<name>-export"
FlagDecl(multi, multiFormat, required, hasDefault, defaultRaw, choicesRaw, envName, export) ==
    [multi |-> multi, multiFormat |-> multiFormat, required |-> required,
     hasDefault |-> hasDefault, defaultRaw |-> defaultRaw, choicesRaw |-> choicesRaw,
     envName |-> envName, export |-> export]

\* the check of a declared default against the declared choices: TRUE when
\* collectSpecs returns an error
defaultError(fs) ==
    /\ Len(fs.Choices.vals) > 0
    /\ ~fs.Default.isNil
    /\ \/ Len(fs.Default.vals) = 0 /\ ~fs.Required
       \/ \E i \in 1..Len(fs.Default.vals) :
              ~checkInStringSlice(fs.Default.vals[i], fs.Choices.vals)

\* collectSpecs, the body of its loop over the flags: err, and the FlagSpec
collectFlag(d) ==
    With(ParseMultiValues(d.multiFormat, Slice(FALSE, d.defaultRaw)), LAMBDA pd :
    With(ParseMultiValues(d.multiFormat, Slice(FALSE, d.choicesRaw)), LAMBDA pc0 :
    With(FlagSpec(IF ~d.hasDefault THEN NilSlice
                  ELSE IF d.multi THEN pd.out
                  ELSE Slice(FALSE, <<d.defaultRaw[Len(d.defaultRaw)]>>),
                  pc0.out, d.required, d.multi, d.multiFormat, d.envName, d.export,
                  Slice(FALSE, <<>>)),
         LAMBDA fs :
             [err |-> \/ ~checkMultiFormat(d.multiFormat)
                      \/ d.hasDefault /\ d.multi /\ pd.err
                      \/ pc0.err
                      \/ defaultError(fs),
              fs  |-> fs])))

\* what the user passed for one flag after "--": changed is pflag's Changed,
\* occ the values of the occurrences in order
Omitted == [changed |-> FALSE, occ |-> <<>>]
Passed(occ) == [changed |-> TRUE, occ |-> occ]

\* cmd.Flags().GetStringArray for a flag registered with StringArrayP and
\* default fs.Default
GetStringArray(fs, sup) == IF sup.changed THEN Slice(FALSE, sup.occ) ELSE fs.Default

\* cmd.Flags().GetString for a flag registered with StringP and default
\* Default[0], or "" when there is none
GetString(fs, sup) ==
    IF sup.changed THEN sup.occ[Len(sup.occ)]
    ELSE IF Len(fs.Default.vals) > 0 THEN fs.Default.vals[1] ELSE <<>>

\* the value resolution of one flag in RunE: err, and the Value assigned
resolveValue(fs, sup) ==
    IF fs.Required /\ ~sup.changed
    THEN IF fs.Default.isNil THEN [err |-> TRUE, val |-> fs.Value]
         ELSE [err |-> FALSE, val |-> fs.Default]
    ELSE IF fs.Multi
    THEN With(ParseMultiValues(fs.MultiFormat, GetStringArray(fs, sup)), LAMBDA p :
             IF p.err THEN [err |-> TRUE, val |-> fs.Value]
             ELSE [err |-> FALSE, val |-> p.out])
    ELSE [err |-> FALSE, val |-> Slice(FALSE, <<GetString(fs, sup)>>)]

\* the choices check of one flag in RunE: TRUE when it returns an error
choicesError(fs, val) ==
    /\ Len(fs.Choices.vals) > 0
    /\ \/ Len(val.vals) = 0
       \/ \E i \in 1..Len(val.vals) : ~checkInStringSlice(val.vals[i], fs.Choices.vals)

-----------------------------------------------------------------------------
(* shell.go: variable names, statements and their order *)

LowerLetters == <<"a", "b", "c", "d", "e", "f", "g", "h", "i", "j", "k", "l", "m",
                  "n", "o", "p", "q", "r", "s", "t", "u", "v", "w", "x", "y", "z">>
UpperLetters == <<"A", "B", "C", "D", "E", "F", "G", "H", "I", "J", "K", "L", "M",
                  "N", "O", "P", "Q", "R", "S", "T", "U", "V", "W", "X", "Y", "Z">>

\* strings.ToUpper
ToUpper(s) ==
    [i \in 1..Len(s) |->
        IF \E k \in 1..Len(LowerLetters) : LowerLetters[k] = s[i]
        THEN UpperLetters[CHOOSE k \in 1..Len(LowerLetters) : LowerLetters[k] = s[i]]
        ELSE s[i]]

\* the name with the prefix left off when the explicit name is set
calcEnvNameExplicitUnprefixed(fs, key, prefix) ==
    IF fs.EnvName # <<>> THEN fs.EnvName
    ELSE IF prefix # <<>> THEN prefix \o ToUpper(ReplaceAll(key, "-", <<"_">>))
    ELSE ToUpper(ReplaceAll(key, "-", <<"_">>))

\* calcEnvName
calcEnvName(fs, key, prefix) ==
    LET varName == IF fs.EnvName = <<>> THEN ToUpper(ReplaceAll(key, "-", <<"_">>))
                   ELSE fs.EnvName
    IN  IF prefix # <<>> THEN prefix \o varName ELSE varName

\* the characters of names in byte order
ByteOrder == <<"-">> \o Digits \o UpperLetters \o <<"_">> \o LowerLetters
Ord(c) == CHOOSE i \in 1..Len(ByteOrder) : ByteOrder[i] = c

RECURSIVE StrLess(_, _)
\* a < b for Go strings
StrLess(a, b) ==
    IF b = <<>> THEN FALSE
    ELSE IF a = <<>> THEN TRUE
    ELSE IF Head(a) = Head(b) THEN StrLess(Tail(a), Tail(b))
    ELSE Ord(Head(a)) < Ord(Head(b))

RECURSIVE InsertSorted(_, _)
InsertSorted(k, sorted) ==
    IF sorted = <<>> THEN <<k>>
    ELSE IF StrLess(k, Head(sorted)) THEN <<k>> \o sorted
    ELSE <<Head(sorted)>> \o InsertSorted(k, Tail(sorted))

\* the keys left in the order the map iteration gave
KeysUnsorted(keys) == keys

RECURSIVE SortStrings(_)
\* sort.Strings(keys)
SortStrings(keys) ==
    IF keys = <<>> THEN <<>> ELSE InsertSorted(Head(keys), SortStrings(Tail(keys)))

\* a string literal of the source as a character sequence
Chars(str) == [i \in 1..Len(str) |-> SubSeq(str, i, i)]

RECURSIVE TrimLeftCut(_, _)
TrimLeftCut(s, c) == IF s # <<>> /\ Head(s) = c THEN TrimLeftCut(Tail(s), c) ELSE s

RECURSIVE TrimRightCut(_, _)
TrimRightCut(s, c) ==
    IF s # <<>> /\ s[Len(s)] = c THEN TrimRightCut(SubSeq(s, 1, Len(s) - 1), c) ELSE s

\* strings.Trim(s, cutset) for a cutset of one character
Trim(s, c) == TrimRightCut(TrimLeftCut(s, c), c)

\* the statement exportEnvVarLinuxLike appends for one flag
LinuxLine(varName, val, export) ==
    (IF export THEN Chars("export ") ELSE <<>>) \o varName \o <<"=">> \o buildShellLiteral(val)

\* escapeForPS
escapeForPS(s) == IF s = <<>> THEN <<SQ, SQ>> ELSE <<SQ>> \o ReplaceAll(s, SQ, <<SQ, SQ>>) \o <<SQ>>

\* the statement exportEnvVarPowershellLike appends for one flag
PowershellLine(varName, val, export) ==
    IF export
    THEN Chars("[System.Environment]::SetEnvironmentVariable(") \o escapeForPS(varName)
             \o <<",">> \o buildPowershellLiteral(val) \o <<",", SQ>> \o Chars("User") \o <<SQ, ")">>
    ELSE Chars("$Env:") \o varName \o Chars(" = ") \o buildPowershellLiteral(val)

\* the statement exportEnvVarCmdLike appends for one flag
CmdLine(varName, val, export) ==
    IF export
    THEN Chars("setx ") \o varName \o <<" ", DQ>> \o buildCmdLiteral(val) \o <<DQ>>
    ELSE Chars("set ") \o <<DQ>> \o varName \o <<"=">> \o Trim(buildCmdLiteral(val), DQ) \o <<DQ>>

\* the statement of one flag in a dialect
Line(dialect, varName, val, export) ==
    IF dialect = "powershell" THEN PowershellLine(varName, val, export)
    ELSE IF dialect = "cmd" THEN CmdLine(varName, val, export)
    ELSE LinuxLine(varName, val, export)

\* what strings.Join puts between the statements of a dialect
LineSep(dialect) == IF dialect = "cmd" THEN <<CR, LF>> ELSE <<LF>>

\* the loop over the sorted keys: err, and the statements joined
exportLines(dialect, spec, sorted) ==
    With([i \in 1..Len(sorted) |->
             OutputMultiValues(spec.Flags[sorted[i]].MultiFormat,
                               spec.Flags[sorted[i]].Value.vals)],
         LAMBDA vals :
             IF \E i \in 1..Len(vals) : vals[i].err THEN [err |-> TRUE, out |-> <<>>]
             ELSE [err |-> FALSE,
                   out |-> Join([i \in 1..Len(sorted) |->
                                    Line(dialect,
                                         calcEnvName(spec.Flags[sorted[i]], sorted[i],
                                                     spec.EnvPrefix),
                                         vals[i].out, spec.Flags[sorted[i]].Export)],
                                LineSep(dialect))])

\* exportEnvVarLinuxLike, exportEnvVarPowershellLike and exportEnvVarCmdLike:
\* keys is the order in which the flag map was iterated
exportEnvVarLike(dialect, spec, keys) ==
    IF Len(keys) = 0 THEN [err |-> FALSE, out |-> <<>>]
    ELSE exportLines(dialect, spec, SortStrings(keys))

\* the outcomes of detectUserShell: an error, or the dialect its name selects
Detections == {"error", "sh", "powershell", "cmd"}

\* the outcomes detectUserShell can have in a run: it is called for the
\* shell type auto only
DetectionsFor(spec) ==
    IF spec.ShellType \in {"sh", "powershell", "cmd"} THEN {"not called"} ELSE Detections

\* exportEnvVar
exportEnvVar(spec, keys, detected) ==
    IF spec.ShellType \notin {"sh", "powershell", "cmd"} /\ detected = "error"
    THEN [err |-> TRUE, out |-> <<>>]
    ELSE exportEnvVarLike(IF spec.ShellType \in {"sh", "powershell", "cmd"}
                          THEN spec.ShellType ELSE detected,
                          spec, keys)

\* the orders in which a map with these keys can be iterated
Orders(keys) ==
    {o \in [1..Cardinality(keys) -> keys] : \A i, j \in DOMAIN o : i # j => o[i] # o[j]}

-----------------------------------------------------------------------------
(* NaturalRangeFilter: IntRange members joined by OR, and its text form *)

\* the NaturalRangeFilter struct together with the error of its parser
Filter(ranges) == [err |-> FALSE, Ranges |-> ranges]
FilterError == [err |-> TRUE, Ranges |-> <<>>]

NewAllNaturalRangeFilter == Filter(<<NewGreaterOrEqualThanIntRange(0)>>)

parseNaturalNumber(s) ==
    IF Atoi(s).ok /\ Atoi(s).n >= 0 THEN Atoi(s) ELSE [ok |-> FALSE, n |-> 0]

RECURSIVE Split(_, _, _)
\* strings.Split(s, c) for a one-character c, cur being the fragment being read
Split(s, c, cur) ==
    IF s = <<>> THEN <<cur>>
    ELSE IF Head(s) = c THEN <<cur>> \o Split(Tail(s), c, <<>>)
    ELSE Split(Tail(s), c, cur \o <<Head(s)>>)

\* strings.Count(s, c) for a one-character c
Count(s, c) == Cardinality({i \in 1..Len(s) : s[i] = c})

\* strings.Index(s, c), 0-based, for a c that occurs in s
Index(s, c) == (CHOOSE i \in 1..Len(s) : s[i] = c /\ \A j \in 1..(i - 1) : s[j] # c) - 1

\* what one iteration of the token loop does: fail, return the all-filter at
\* once, or append r and move prev
TokError == [kind |-> "error", r |-> NewUnboundedIntRange, prev |-> 0]
TokAll == [kind |-> "all", r |-> NewUnboundedIntRange, prev |-> 0]
TokRange(r, prev) == [kind |-> "range", r |-> r, prev |-> prev]

\* a token with one dash, cut into left and right of it
dashToken(left, right, prev) ==
    IF left = <<>> /\ right = <<>> THEN TokError
    ELSE IF left # <<>> /\ right # <<>>
         THEN IF ~parseNaturalNumber(left).ok \/ ~parseNaturalNumber(right).ok
              THEN TokError
              ELSE IF parseNaturalNumber(left).n > parseNaturalNumber(right).n
              THEN TokError
              ELSE IF parseNaturalNumber(left).n < prev THEN TokError
              ELSE IF parseNaturalNumber(right).n < prev THEN TokError
              ELSE TokRange(NewInclusiveIntRange(parseNaturalNumber(left).n,
                                                 parseNaturalNumber(right).n),
                            parseNaturalNumber(right).n)
    ELSE IF left # <<>>
         THEN IF ~parseNaturalNumber(left).ok THEN TokError
              ELSE IF parseNaturalNumber(left).n < prev THEN TokError
              ELSE TokRange(NewGreaterOrEqualThanIntRange(parseNaturalNumber(left).n),
                            parseNaturalNumber(left).n)
    ELSE IF ~parseNaturalNumber(right).ok THEN TokError
         ELSE IF parseNaturalNumber(right).n < prev THEN TokError
         ELSE TokRange(NewLessOrEqualThanIntRange(parseNaturalNumber(right).n),
                       parseNaturalNumber(right).n)

\* the loop body for one trimmed token
filterToken(tok, prev) ==
    IF tok = <<>> THEN TokError
    ELSE IF Count(tok, "-") > 1
         THEN IF tok # <<"-", "-">> /\ Head(tok) = "-" /\ tok[Len(tok)] = "-"
              THEN IF parseNaturalNumber(SubSeq(tok, 2, Len(tok) - 1)).ok
                   THEN TokAll ELSE TokError
              ELSE TokError
    ELSE IF StrContains(tok, "-")
         THEN dashToken(SubSeq(tok, 1, Index(tok, "-")), From(tok, Index(tok, "-") + 1), prev)
    ELSE IF ~parseNaturalNumber(tok).ok THEN TokError
    ELSE IF parseNaturalNumber(tok).n < prev THEN TokError
    ELSE TokRange(NewSingleValueIntRange(parseNaturalNumber(tok).n),
                  parseNaturalNumber(tok).n)

RECURSIVE filterLoop(_, _, _)
\* the token loop of NewNaturalRangeFilter over the tokens still to read
filterLoop(tokens, prev, ranges) ==
    IF tokens = <<>> THEN Filter(ranges)
    ELSE With(filterToken(TrimSpace(Head(tokens)), prev), LAMBDA t :
             IF t.kind = "error" THEN FilterError
             ELSE IF t.kind = "all" THEN NewAllNaturalRangeFilter
             ELSE filterLoop(Tail(tokens), t.prev, Append(ranges, t.r)))

NewNaturalRangeFilter(v) ==
    With(TrimSpace(v), LAMBDA s :
        IF s = <<>> THEN Filter(<<>>)
        ELSE IF s = <<"a", "l", "l">> THEN Filter(<<NewUnboundedIntRange>>)
        ELSE filterLoop(Split(s, "_", <<>>), 0, <<>>))

\* f.Test(n) for the filter whose Ranges are ranges
Test(ranges, n) ==
    IF n < 0 THEN FALSE ELSE \E i \in 1..Len(ranges) : Contains(ranges[i], n)

\* IsAllNatural, inner loops: the valid residuals of every interval still
\* left after r is taken out of it
RECURSIVE leftAfter(_, _, _)
leftAfter(src, r, i) ==
    IF i > Len(src) THEN <<>>
    ELSE SelectSeq(Substract(src[i], r), IsValid) \o leftAfter(src, r, i + 1)

\* IsAllNatural with the first collection never emptied between members:
\* every member is taken out of [0, +inf) itself
RECURSIVE allNaturalFromStart(_, _, _)
allNaturalFromStart(ranges, i, src) ==
    IF i > Len(ranges) THEN FALSE
    ELSE IF leftAfter(<<NewGreaterOrEqualThanIntRange(0)>>, ranges[i], 1) = <<>> THEN TRUE
    ELSE allNaturalFromStart(ranges, i + 1, src)

\* IsAllNatural, outer loop from member i on, src being what is left of
\* [0, +inf)
RECURSIVE allNaturalLoop(_, _, _)
allNaturalLoop(ranges, i, src) ==
    IF i > Len(ranges) THEN FALSE
    ELSE With(leftAfter(src, ranges[i], 1), LAMBDA tgt :
            IF tgt = <<>> THEN TRUE ELSE allNaturalLoop(ranges, i + 1, tgt))

IsAllNatural(ranges) ==
    IF Len(ranges) = 0 THEN FALSE
    ELSE allNaturalLoop(ranges, 1, <<NewGreaterOrEqualThanIntRange(0)>>)

IsUpperBounded(r) == ~r.MaxUnbounded

\* Normalize, first loop, for one member: its closed form with the lower
\* bound raised to 0
raised(r) ==
    With(TryMyBestToClosedInterval(r), LAMBDA n :
        IF n.MinUnbounded \/ n.Min < 0
        THEN [n EXCEPT !.MinUnbounded = FALSE, !.MinInclude = TRUE, !.Min = 0]
        ELSE n)

valids(ranges) ==
    SelectSeq([i \in 1..Len(ranges) |-> raised(ranges[i])],
              LAMBDA n : IsValid(n) /\ (n.MaxUnbounded \/ n.Max >= 0))

\* the local struct sRange
sRange(min, max, maxUn) == [min |-> min, max |-> max, maxUn |-> maxUn]

\* the smallest Min among the right-unbounded members
rightMin(vs) ==
    CHOOSE m \in {vs[i].Min : i \in {j \in 1..Len(vs) : vs[j].MaxUnbounded}} :
        \A i \in 1..Len(vs) : vs[i].MaxUnbounded => m <= vs[i].Min

\* srs before sorting: the merged right-unbounded member, then the bounded
\* members in their order
srsOf(vs) ==
    (IF \E i \in 1..Len(vs) : vs[i].MaxUnbounded
     THEN <<sRange(rightMin(vs), 0, TRUE)>> ELSE <<>>)
    \o With(SelectSeq(vs, LAMBDA r : ~(r.MinUnbounded \/ r.MaxUnbounded)), LAMBDA bs :
           [i \in 1..Len(bs) |-> sRange(bs[i].Min, bs[i].Max, FALSE)])

\* the less function handed to sort.Slice
sRangeLess(a, b) ==
    IF a.min # b.min THEN a.min < b.min
    ELSE IF a.maxUn # b.maxUn THEN ~a.maxUn /\ b.maxUn
    ELSE a.max < b.max

RECURSIVE insertSRange(_, _)
insertSRange(x, sorted) ==
    IF sorted = <<>> THEN <<x>>
    ELSE IF sRangeLess(x, Head(sorted)) THEN <<x>> \o sorted
    ELSE <<Head(sorted)>> \o insertSRange(x, Tail(sorted))

RECURSIVE sortSRanges(_)
\* sort.Slice(srs, less): members that less does not order are equal records
sortSRanges(srs) ==
    IF srs = <<>> THEN <<>> ELSE insertSRange(Head(srs), sortSRanges(Tail(srs)))

RECURSIVE mergeAdjacentKept(_, _)
\* the merge loop joining overlapping members only
mergeAdjacentKept(srs, merged) ==
    IF srs = <<>> THEN merged
    ELSE IF merged = <<>> THEN mergeAdjacentKept(Tail(srs), <<Head(srs)>>)
    ELSE IF merged[Len(merged)].maxUn THEN merged
    ELSE IF merged[Len(merged)].max >= Head(srs).min
         THEN mergeAdjacentKept(Tail(srs),
                                [merged EXCEPT ![Len(merged)].max = Head(srs).max])
    ELSE mergeAdjacentKept(Tail(srs), Append(merged, Head(srs)))

RECURSIVE mergeLoop(_, _)
\* the merge loop over the sorted srs still to read
mergeLoop(srs, merged) ==
    IF srs = <<>> THEN merged
    ELSE IF merged = <<>> THEN mergeLoop(Tail(srs), <<Head(srs)>>)
    ELSE IF merged[Len(merged)].maxUn THEN merged
    ELSE IF merged[Len(merged)].max + 1 >= Head(srs).min
         THEN mergeLoop(Tail(srs), [merged EXCEPT ![Len(merged)].max = Head(srs).max])
    ELSE mergeLoop(Tail(srs), Append(merged, Head(srs)))

\* the last loop of Normalize for one merged member
toIntRange(m) ==
    IF m.maxUn THEN NewGreaterOrEqualThanIntRange(m.min)
    ELSE IF m.min = m.max THEN NewSingleValueIntRange(m.min)
    ELSE NewInclusiveIntRange(m.min, m.max)

\* f.Normalize() for the filter whose Ranges are ranges; nil is <<>>
Normalize(ranges) ==
    With(mergeLoop(sortSRanges(srsOf(valids(ranges))), <<>>), LAMBDA merged :
        [i \in 1..Len(merged) |-> toIntRange(merged[i])])

\* one part of String()
filterPart(r) ==
    IF ~IsUpperBounded(r) THEN Itoa(r.Min) \o <<"-">>
    ELSE IF r.Min = r.Max THEN Itoa(r.Min)
    ELSE Itoa(r.Min) \o <<"-">> \o Itoa(r.Max)

\* f.String() for the filter whose Ranges are ranges
String(ranges) ==
    With(Normalize(ranges), LAMBDA norm :
        IF Len(norm) = 0 THEN <<>>
        ELSE IF Len(norm) = 1 /\ norm[1].MaxUnbounded /\ norm[1].Min = 0
        THEN <<"a", "l", "l">>
        ELSE Join([i \in 1..Len(norm) |-> filterPart(norm[i])], <<"_">>))

-----------------------------------------------------------------------------
(* run.go: the Args validator of the generated command *)

\* range.go: the shape predicates the validator switches on
IsLessThan(r) == r.MinUnbounded /\ ~r.MaxUnbounded /\ ~r.MaxInclude
IsLessOrEqualThan(r) == r.MinUnbounded /\ ~r.MaxUnbounded /\ r.MaxInclude
IsGreaterThan(r) == ~r.MinUnbounded /\ ~r.MinInclude /\ r.MaxUnbounded
IsGreaterOrEqualThan(r) == ~r.MinUnbounded /\ r.MinInclude /\ r.MaxUnbounded
IsUnbounded(r) == r.MinUnbounded /\ r.MaxUnbounded

\* the cobra validators, as whether they accept k positional arguments
MaximumNArgs(n, k) == ~(k > n)
MinimumNArgs(n, k) == ~(k < n)
ExactArgs(n, k) == ~(k # n)
ArbitraryArgs(k) == TRUE
RangeArgs(min, max, k) == ~(k < min \/ k > max)

\* the Args function with the strict upper bound passed on as it is written
ArgsUpperBoundKept(r, k) ==
    IF LessThan(r, 0) THEN FALSE
    ELSE IF IsLessThan(r) THEN MaximumNArgs(r.Max, k)
    ELSE IF IsLessOrEqualThan(r) THEN MaximumNArgs(r.Max, k)
    ELSE IF IsGreaterThan(r) THEN MinimumNArgs(r.Min + 1, k)
    ELSE IF IsGreaterOrEqualThan(r) THEN MinimumNArgs(r.Min, k)
    ELSE IF IsSingleValue(r) THEN ExactArgs(r.Min, k)
    ELSE IF IsUnbounded(r) THEN ArbitraryArgs(k)
    ELSE RangeArgs(IF ~r.MinInclude THEN r.Min + 1 ELSE r.Min, r.Max, k)

\* the Args function of realCmd: whether it returns nil for k positional
\* arguments when spec.ArgsRange is r
Args(r, k) ==
    IF LessThan(r, 0) THEN FALSE
    ELSE IF IsLessThan(r) THEN MaximumNArgs(r.Max - 1, k)
    ELSE IF IsLessOrEqualThan(r) THEN MaximumNArgs(r.Max, k)
    ELSE IF IsGreaterThan(r) THEN MinimumNArgs(r.Min + 1, k)
    ELSE IF IsGreaterOrEqualThan(r) THEN MinimumNArgs(r.Min, k)
    ELSE IF IsSingleValue(r) THEN ExactArgs(r.Min, k)
    ELSE IF IsUnbounded(r) THEN ArbitraryArgs(k)
    ELSE RangeArgs(IF ~r.MinInclude THEN r.Min + 1 ELSE r.Min,
                   IF ~r.MaxInclude THEN r.Max - 1 ELSE r.Max, k)

-----------------------------------------------------------------------------
(* The sections a specification does not exercise stay idle *)

NotParsed == [done |-> FALSE, ok |-> FALSE, r |-> NewUnboundedIntRange,
              emptyAsUnbounded |-> FALSE]

ShellIdle == value = <<>> /\ literal = <<>> /\ shell = "none"
ParseIdle == text = <<>> /\ parsed = NotParsed /\ reparsed = NotParsed
RangeIdle ==
    /\ rng = NewUnboundedIntRange /\ oth = NewUnboundedIntRange
    /\ num = 0 /\ rop = "none" /\ rres = FALSE
BindIdle  ==
    /\ declared = <<>> /\ cmdspec = CmdSpec(<<>>, "sh", <<>>) /\ supplied = <<>>
    /\ pending = {} /\ flagName = <<>> /\ pc = "none" /\ stdout = <<>>

\* what the filter methods returned: the integer tested and the answer, the
\* normalized members, the text of String(), and the filter made from either
FRes(n, accepted, norm, str, again, allNatural) ==
    [n |-> n, accepted |-> accepted, norm |-> norm, str |-> str, again |-> again,
     allNatural |-> allNatural]
NoFRes == FRes(0, FALSE, <<>>, <<>>, Filter(<<>>), FALSE)
\* the filter under study: fromText tells a filter NewNaturalRangeFilter
\* returned from one written as a struct literal
NotBuilt == [done |-> FALSE, fromText |-> FALSE, err |-> FALSE, Ranges |-> <<>>]
Built(f, fromText) ==
    [done |-> TRUE, fromText |-> fromText, err |-> f.err, Ranges |-> f.Ranges]

FilterIdle == ftext = <<>> /\ filter = NotBuilt /\ fop = "none" /\ fres = NoFRes
CodecIdle ==
    /\ cfmt = <<>> /\ cvals = NilSlice /\ cop = "none"
    /\ cres = [err |-> FALSE, out |-> <<>>]
ArgsIdle ==
    /\ argsRangeStr = <<>> /\ argsRange = NotParsed /\ args = -1 /\ argsErr = FALSE

-----------------------------------------------------------------------------
(* Shell section: one value, one encoder applied to it *)

ShellChars == {SQ, DQ, BS, BT, "n", LF, CR}

ShellInit ==
    /\ value \in StrSet(ShellChars, MaxLen)
    /\ literal = <<>> /\ shell = "none"
    /\ ParseIdle /\ RangeIdle /\ BindIdle /\ FilterIdle /\ CodecIdle /\ ArgsIdle

EncodePosix ==
    /\ shell = "none"
    /\ literal' = buildShellLiteral(value)
    /\ shell' = "sh"
    /\ UNCHANGED <<value, parseVars, rangeVars, bindVars, filterVars, codecVars, argsVars>>

EncodePowershell ==
    /\ shell = "none"
    /\ literal' = buildPowershellLiteral(value)
    /\ shell' = "powershell"
    /\ UNCHANGED <<value, parseVars, rangeVars, bindVars, filterVars, codecVars, argsVars>>

EncodeCmd ==
    /\ shell = "none"
    /\ literal' = buildCmdLiteral(value)
    /\ shell' = "cmd"
    /\ UNCHANGED <<value, parseVars, rangeVars, bindVars, filterVars, codecVars, argsVars>>

ShellNext == EncodePosix \/ EncodePowershell \/ EncodeCmd

ShellSpec == ShellInit /\ [][ShellNext]_vars

\* C1: reading the literal buildShellLiteral(s) returns under POSIX quoting
\* rules yields exactly s, for every value s.
PosixRoundTrip ==
    shell = "sh" => PosixRead(literal, 1, FALSE) = value

\* a value with an embedded single quote and a newline has been encoded
PosixRoundTripWitness ==
    /\ shell = "sh"
    /\ StrContains(value, SQ) /\ StrContains(value, LF) /\ StrContains(value, BS)
    /\ PosixRead(literal, 1, FALSE) = value

\* C2: evaluating the expression buildPowershellLiteral(s) returns under
\* PowerShell string rules yields exactly s, newline conventions included.
PowershellRoundTrip ==
    shell = "powershell" => PowershellRead(literal, 1, "expr") = value

\* a value mixing CRLF, a lone LF and a single quote has been encoded
PowershellRoundTripWitness ==
    /\ shell = "powershell"
    /\ \E i \in 1..(Len(value) - 1) : value[i] = CR /\ value[i + 1] = LF
    /\ StrContains(value, SQ)
    /\ value[Len(value)] = LF /\ Len(value) = 4
    /\ PowershellRead(literal, 1, "expr") = value

\* the values compared with the encoded one
CmdOthers == StrSet({DQ, BS, "n", LF, CR}, MaxLen - 1)

\* C29: for any two different value strings s1 and s2 (over characters
\* including double quote, backslash, "n", "r", LF and CR),
\* buildCmdLiteral(s1) differs from buildCmdLiteral(s2), so an encoded
\* literal identifies one value only.
CmdEncodingInjective ==
    shell = "cmd" =>
        \A s2 \in CmdOthers : s2 # value => buildCmdLiteral(s2) # literal

-----------------------------------------------------------------------------
(* Range-literal section: one text, parsed, printed and parsed again *)

\* the number tokens a literal is built from: -MaxNum..MaxNum, with the
\* spellings strconv.Atoi also accepts (+N, 0N) and two it rejects
NumToks ==
    {Itoa(n) : n \in (0 - MaxNum)..MaxNum}
        \cup {<<"+">> \o Itoa(n) : n \in 1..MaxNum}
        \cup {<<"0">> \o Itoa(n) : n \in 0..MaxNum}
        \cup {<<>>, <<"-">>}

Pads == {<<>>, <<" ">>}

OpToks == {<<>>, <<"=">>, <<">", "=">>, <<">">>, <<"<", "=">>, <<"<">>, <<"=", ">">>}

\* [op]N with optional blanks
PrefixTexts ==
    {p1 \o op \o p2 \o n \o p3 :
        p1 \in Pads, op \in OpToks, p2 \in Pads, n \in NumToks, p3 \in Pads}

\* bracket N , M bracket with optional blanks, and the same without a comma
IntervalTexts ==
    {p1 \o <<lb>> \o p2 \o a \o <<",">> \o b \o p3 \o <<rb>> :
        p1 \in Pads, lb \in {"(", "["}, p2 \in Pads, a \in NumToks, b \in NumToks,
        p3 \in Pads, rb \in {")", "]"}}
        \cup {<<lb>> \o a \o <<rb>> : lb \in {"(", "["}, a \in NumToks, rb \in {")", "]"}}

Texts == PrefixTexts \cup IntervalTexts

ParseInit ==
    /\ text \in Texts
    /\ parsed = NotParsed /\ reparsed = NotParsed
    /\ ShellIdle /\ RangeIdle /\ BindIdle /\ FilterIdle /\ CodecIdle /\ ArgsIdle

\* NewIntRange(text, emptyAsUnbounded)
ParseText ==
    /\ ~parsed.done
    /\ \E e \in BOOLEAN :
          parsed' = [done |-> TRUE, ok |-> NewIntRange(text, e).ok,
                     r |-> NewIntRange(text, e).r, emptyAsUnbounded |-> e]
    /\ UNCHANGED <<text, reparsed, shellVars, rangeVars, bindVars, filterVars, codecVars, argsVars>>

\* NewIntRange(r.ToParseableString(), false) for the range just parsed
Reparse ==
    /\ parsed.done /\ parsed.ok /\ ~reparsed.done
    /\ LET again == NewIntRange(ToParseableString(parsed.r), FALSE)
       IN  reparsed' = [done |-> TRUE, ok |-> again.ok, r |-> again.r,
                        emptyAsUnbounded |-> FALSE]
    /\ UNCHANGED <<text, parsed, shellVars, rangeVars, bindVars, filterVars, codecVars, argsVars>>

ParseNext == ParseText \/ Reparse

ParseSpec == ParseInit /\ [][ParseNext]_vars

\* C7: for every string s that NewIntRange(s, false) parses into r,
\* NewIntRange(r.ToParseableString(), false) succeeds and returns a range
\* equal to r in all six fields.
LiteralRoundTrip ==
    (reparsed.done /\ ~parsed.emptyAsUnbounded) => (reparsed.ok /\ reparsed.r = parsed.r)

\* an interval literal with blanks, a negative bound and one inclusive end
\* was parsed, printed and parsed back
LiteralRoundTripWitness ==
    /\ reparsed.done /\ ~parsed.emptyAsUnbounded
    /\ StrContains(text, ",") /\ StrContains(text, " ")
    /\ parsed.r.Min < 0 /\ parsed.r.MinInclude /\ ~parsed.r.MaxInclude
    /\ ~parsed.r.MaxUnbounded /\ parsed.r.Max > parsed.r.Min + 1
    /\ reparsed.ok /\ reparsed.r = parsed.r

\* C17: for every string that is empty after trimming whitespace, NewIntRange
\* returns the fully unbounded range when emptyAsUnbounded is true and a
\* parse error when it is false.
EmptyLiteral ==
    (parsed.done /\ TrimSpace(text) = <<>>) =>
        IF parsed.emptyAsUnbounded
        THEN parsed.ok /\ parsed.r = NewUnboundedIntRange
        ELSE ~parsed.ok

\* C28: every IntRange that NewIntRange returns without an error satisfies
\* IsValid(), i.e. contains at least one integer; an interval literal that
\* denotes no integer is a parse error.
ParsedRangesNeverEmpty ==
    (parsed.done /\ parsed.ok) =>
        /\ IsValid(parsed.r)
        /\ \/ parsed.r.MinUnbounded \/ parsed.r.MaxUnbounded
           \/ \E n \in parsed.r.Min..parsed.r.Max : Contains(parsed.r, n)

-----------------------------------------------------------------------------
(* Range-algebra section: one receiver range, one operation applied to it *)

Vals == (0 - MaxVal)..MaxVal

\* the integers handed to the predicates reach one past the bounds
Probes == (0 - MaxVal - 1)..(MaxVal + 1)

\* every IntRange with bounds in Vals; as everywhere in the package, the
\* Min/Max of an unbounded side is left at zero
Ranges ==
    {IntRange(IF mu THEN 0 ELSE a, mi, IF xu THEN 0 ELSE b, xi, mu, xu) :
        a \in Vals, b \in Vals, mi \in BOOLEAN, xi \in BOOLEAN,
        mu \in BOOLEAN, xu \in BOOLEAN}

RangeInit ==
    /\ rng \in Ranges
    /\ oth = NewUnboundedIntRange /\ num = 0 /\ rop = "new" /\ rres = FALSE
    /\ ShellIdle /\ ParseIdle /\ BindIdle /\ FilterIdle /\ CodecIdle /\ ArgsIdle

\* a predicate taking an integer is applied to rng
ApplyToInt(name, n, result) ==
    /\ rop = "new"
    /\ rop' = name /\ num' = n /\ rres' = result
    /\ UNCHANGED <<rng, oth, shellVars, parseVars, bindVars, filterVars, codecVars, argsVars>>

\* an operation taking a range is applied to rng
ApplyToRange(name, o, result) ==
    /\ rop = "new"
    /\ rop' = name /\ oth' = o /\ rres' = result
    /\ UNCHANGED <<rng, num, shellVars, parseVars, bindVars, filterVars, codecVars, argsVars>>

DoContains == \E n \in Probes : ApplyToInt("Contains", n, Contains(rng, n))
DoLessThan == \E n \in Probes : ApplyToInt("LessThan", n, LessThan(rng, n))
DoLessOrEqualThan ==
    \E n \in Probes : ApplyToInt("LessOrEqualThan", n, LessOrEqualThan(rng, n))
DoGreaterThan == \E n \in Probes : ApplyToInt("GreaterThan", n, GreaterThan(rng, n))
DoGreaterOrEqualThan ==
    \E n \in Probes : ApplyToInt("GreaterOrEqualThan", n, GreaterOrEqualThan(rng, n))
DoHasIntesect == \E o \in Ranges : ApplyToRange("HasIntesect", o, HasIntesect(rng, o))
DoIntersect == \E o \in Ranges : ApplyToRange("Intersect", o, Intersect(rng, o))
DoSubstract == \E o \in Ranges : ApplyToRange("Substract", o, Substract(rng, o))
DoTryMyBestToClosedInterval ==
    ApplyToRange("TryMyBestToClosedInterval", oth, TryMyBestToClosedInterval(rng))

RangeNext ==
    \/ DoContains \/ DoLessThan \/ DoLessOrEqualThan \/ DoGreaterThan
    \/ DoGreaterOrEqualThan \/ DoHasIntesect \/ DoIntersect \/ DoSubstract
    \/ DoTryMyBestToClosedInterval

RangeSpec == RangeInit /\ [][RangeNext]_vars

IntPredicates ==
    {"Contains", "LessThan", "LessOrEqualThan", "GreaterThan", "GreaterOrEqualThan"}

\* C8: for every range r with r.IsValid() false, Contains, LessThan,
\* LessOrEqualThan, GreaterThan and GreaterOrEqualThan are false for every
\* n, and HasIntesect is false with r on either side.
InvalidMeansEmpty ==
    /\ (rop \in IntPredicates /\ ~IsValid(rng)) => rres = FALSE
    /\ (rop = "HasIntesect" /\ (~IsValid(rng) \/ ~IsValid(oth))) => rres = FALSE

\* Contains was asked of a range whose unbounded upper side is marked
\* inclusive, for an integer above its lower bound
InvalidMeansEmptyWitness ==
    /\ rop = "Contains" /\ ~IsValid(rng)
    /\ rng.MaxUnbounded /\ rng.MaxInclude /\ ~rng.MinUnbounded /\ num > rng.Min
    /\ rres = FALSE

\* C9: for every valid range r, r.Intersect(r) equals r; for every range r,
\* r.HasIntesect(r) equals r.IsValid().
IntersectIdempotent ==
    /\ (rop = "Intersect" /\ oth = rng /\ IsValid(rng)) => rres = rng
    /\ (rop = "HasIntesect" /\ oth = rng) => rres = IsValid(rng)

\* a bounded half-open range was intersected with itself
IntersectIdempotentWitness ==
    /\ rop = "Intersect" /\ oth = rng /\ IsValid(rng)
    /\ ~rng.MinUnbounded /\ ~rng.MaxUnbounded /\ rng.MinInclude /\ ~rng.MaxInclude
    /\ rres = rng

\* C10: for every range r, r.Substract(r) and
\* r.Substract(NewUnboundedIntRange()) return no residual interval.
SubstractFullCoverage ==
    (rop = "Substract" /\ (oth = rng \/ oth = NewUnboundedIntRange)) => rres = <<>>

\* for a valid receiver both calls return no residual interval
SubstractFullCoverageOfValid ==
    (rop = "Substract" /\ IsValid(rng) /\ (oth = rng \/ oth = NewUnboundedIntRange))
        => rres = <<>>

\* C21: for all valid IntRanges r and o and every integer n,
\* r.Intersect(o).Contains(n) is true if and only if r.Contains(n) and
\* o.Contains(n) are both true.
IntersectIsSetIntersection ==
    (rop = "Intersect" /\ IsValid(rng) /\ IsValid(oth)) =>
        \A n \in Probes : Contains(rres, n) <=> (Contains(rng, n) /\ Contains(oth, n))

\* C22: for all IntRanges r and o, if r.IsValid() is false or o.IsValid() is
\* false, then r.HasIntesect(o) is false and r.Intersect(o) is an invalid
\* range that contains no integer.
IntersectWithEmptyIsEmpty ==
    /\ (rop = "HasIntesect" /\ (~IsValid(rng) \/ ~IsValid(oth))) => rres = FALSE
    /\ (rop = "Intersect" /\ (~IsValid(rng) \/ ~IsValid(oth))) =>
          (~IsValid(rres) /\ \A n \in Probes : ~Contains(rres, n))

\* C23: for all valid IntRanges r and o, r.Substract(o) returns at most two
\* ranges, each of them valid, and for every integer n some returned range
\* contains n if and only if r.Contains(n) and not o.Contains(n).
SubstractIsSetDifference ==
    (rop = "Substract" /\ IsValid(rng) /\ IsValid(oth)) =>
        /\ Len(rres) <= 2
        /\ \A i \in 1..Len(rres) : IsValid(rres[i])
        /\ \A n \in Probes :
              (\E i \in 1..Len(rres) : Contains(rres[i], n))
                  <=> (Contains(rng, n) /\ ~Contains(oth, n))

\* a bounded range was cut by a bounded range strictly inside it, leaving a
\* residual interval on each side
SubstractIsSetDifferenceWitness ==
    /\ rop = "Substract" /\ IsValid(rng) /\ IsValid(oth)
    /\ ~rng.MinUnbounded /\ ~rng.MaxUnbounded /\ ~oth.MinUnbounded /\ ~oth.MaxUnbounded
    /\ Len(rres) = 2
    /\ Contains(rres[1], rng.Min) /\ Contains(rres[2], rng.Max)
    /\ ~Contains(rres[1], oth.Min) /\ ~Contains(rres[2], oth.Min)

\* C24: for every IntRange r and integer n, r.LessThan(n) is true iff r is
\* valid, upper-bounded and every integer m with r.Contains(m) satisfies
\* m < n; likewise LessOrEqualThan with m <= n, and GreaterThan and
\* GreaterOrEqualThan (r valid and lower-bounded) with m > n and m >= n.
ComparisonsQuantifyOverMembers ==
    /\ rop = "LessThan" =>
          (rres <=> (IsValid(rng) /\ ~rng.MaxUnbounded
                        /\ (\A m \in Probes : Contains(rng, m) => m < num)))
    /\ rop = "LessOrEqualThan" =>
          (rres <=> (IsValid(rng) /\ ~rng.MaxUnbounded
                        /\ (\A m \in Probes : Contains(rng, m) => m <= num)))
    /\ rop = "GreaterThan" =>
          (rres <=> (IsValid(rng) /\ ~rng.MinUnbounded
                        /\ (\A m \in Probes : Contains(rng, m) => m > num)))
    /\ rop = "GreaterOrEqualThan" =>
          (rres <=> (IsValid(rng) /\ ~rng.MinUnbounded
                        /\ (\A m \in Probes : Contains(rng, m) => m >= num)))

\* LessThan was asked of a valid range with an exclusive upper bound, for
\* the value of that bound, and answered true
ComparisonsQuantifyOverMembersWitness ==
    /\ rop = "LessThan" /\ IsValid(rng) /\ ~rng.MaxUnbounded /\ ~rng.MaxInclude
    /\ num = rng.Max /\ rres = TRUE

\* C25: for every IntRange r (valid or invalid) and every integer n,
\* r.TryMyBestToClosedInterval().Contains(n) equals r.Contains(n); an invalid
\* range never becomes a valid, non-empty range.
ClosedFormKeepsMembers ==
    rop = "TryMyBestToClosedInterval" =>
        /\ \A n \in Probes : Contains(rres, n) = Contains(rng, n)
        /\ ~IsValid(rng) => ~IsValid(rres)

-----------------------------------------------------------------------------
(* Bind section: two declared flags, the RunE loop over them, the export *)

BindFlags == {<<"a">>, <<"b">>}

\* raw texts of defaults, choices and passed values
TextX     == <<"x">>
TextY     == <<"y">>
TextZ     == <<"z">>
TextEmpty == <<>>
TextComma == <<"x", ",", "y">>
TextSpace == <<"x", " ", "y">>
TextLines == <<"x", LF, "y">>
TextJsonArray  == <<"[", DQ, "x", DQ, ",", DQ, "y", DQ, "]">>
TextJsonString == <<DQ, "x", DQ>>

MultiFormats == {<<"comma">>, <<"newline">>, <<"space">>, <<"json">>}

\* occurrences of "flag-<name>-default"
DefaultRaws == {<<TextX>>, <<TextComma>>, <<TextSpace>>, <<TextLines>>,
                <<TextJsonArray>>, <<TextJsonString>>, <<TextEmpty>>}

\* occurrences of "flag-<name>-choices"
ChoicesRaws == {<<>>, <<TextComma>>, <<TextJsonArray>>}

\* what the user passes for a flag
Supplies == {Omitted, Passed(<<TextX>>), Passed(<<TextZ>>), Passed(<<TextComma>>),
             Passed(<<TextJsonArray>>), Passed(<<TextX, TextY>>)}

\* the declarations collectSpecs accepts
Accepted(decls) == {d \in decls : ~collectFlag(d).err}

\* declarations of flag a: every combination of the options
DeclsA ==
    Accepted({FlagDecl(m, f, r, FALSE, <<>>, c, <<>>, FALSE) :
                  m \in BOOLEAN, f \in MultiFormats, r \in BOOLEAN, c \in ChoicesRaws}
             \cup {FlagDecl(m, f, r, TRUE, d, c, <<>>, FALSE) :
                  m \in BOOLEAN, f \in MultiFormats, r \in BOOLEAN, c \in ChoicesRaws,
                  d \in DefaultRaws})

\* declarations of flag b: a single-valued flag with choices x and y
DeclsB ==
    Accepted({FlagDecl(FALSE, <<"comma">>, r, FALSE, <<>>, <<TextComma>>, <<>>, FALSE) :
                  r \in BOOLEAN}
             \cup {FlagDecl(FALSE, <<"comma">>, r, TRUE, <<TextX>>, <<TextComma>>, <<>>, FALSE) :
                  r \in BOOLEAN})

SuppliesB == {Omitted, Passed(<<TextX>>), Passed(<<TextZ>>)}

BindShellTypes == {"sh", "auto"}

\* the state when RunE is entered: collectSpecs succeeded, the flags are
\* registered, the user's tokens are parsed
BindInit ==
    /\ ShellIdle /\ ParseIdle /\ RangeIdle /\ FilterIdle /\ CodecIdle /\ ArgsIdle
    /\ \E da \in DeclsA, db \in DeclsB, st \in BindShellTypes :
           /\ declared = [f \in BindFlags |-> IF f = <<"a">> THEN da ELSE db]
           /\ cmdspec = CmdSpec(<<>>, st,
                                [f \in BindFlags |->
                                    collectFlag(IF f = <<"a">> THEN da ELSE db).fs])
    /\ \E sa \in Supplies, sb \in SuppliesB :
           supplied = [f \in BindFlags |-> IF f = <<"a">> THEN sa ELSE sb]
    /\ pending = BindFlags
    /\ flagName = <<>>
    /\ pc = "run"
    /\ stdout = <<>>

\* cmdspec with the Value of flag f assigned
WithValue(spec, f, val) ==
    [spec EXCEPT !.Flags = [@ EXCEPT ![f] = [@ EXCEPT !.Value = val]]]

\* one iteration of the loop of RunE, for a flag the map iteration yields
VisitFlag(f) ==
    /\ pc = "run"
    /\ f \in pending
    /\ flagName' = f
    /\ \E r \in {resolveValue(cmdspec.Flags[f], supplied[f])} :
           IF r.err
           THEN /\ pc' = "error"
                /\ UNCHANGED <<cmdspec, pending>>
           ELSE /\ cmdspec' = WithValue(cmdspec, f, r.val)
                /\ IF choicesError(cmdspec.Flags[f], r.val)
                   THEN pc' = "error" /\ UNCHANGED pending
                   ELSE pc' = "run" /\ pending' = pending \ {f}
    /\ UNCHANGED <<declared, supplied, stdout>>
    /\ UNCHANGED <<shellVars, parseVars, rangeVars, filterVars, codecVars, argsVars>>

\* the export and the print placed where the flags need not all be resolved
ExportBeforeValidation ==
    /\ pc = "run"
    /\ \E keys \in Orders(DOMAIN cmdspec.Flags), detected \in DetectionsFor(cmdspec) :
           \E e \in {exportEnvVar(cmdspec, keys, detected)} :
               IF e.err
               THEN pc' = "error" /\ UNCHANGED stdout
               ELSE pc' = (IF pending = {} THEN "done" ELSE "run")
                    /\ stdout' = e.out \o <<LF>>
    /\ UNCHANGED <<declared, cmdspec, supplied, pending, flagName>>
    /\ UNCHANGED <<shellVars, parseVars, rangeVars, filterVars, codecVars, argsVars>>

\* the end of RunE: exportEnvVar and fmt.Println
Export ==
    /\ pc = "run"
    /\ pending = {}
    /\ \E keys \in Orders(DOMAIN cmdspec.Flags), detected \in DetectionsFor(cmdspec) :
           \E e \in {exportEnvVar(cmdspec, keys, detected)} :
               IF e.err
               THEN pc' = "error" /\ UNCHANGED stdout
               ELSE pc' = "done" /\ stdout' = e.out \o <<LF>>
    /\ UNCHANGED <<declared, cmdspec, supplied, pending, flagName>>
    /\ UNCHANGED <<shellVars, parseVars, rangeVars, filterVars, codecVars, argsVars>>

BindNext == (\E f \in BindFlags : VisitFlag(f)) \/ Export

BindSpec == BindInit /\ [][BindNext]_vars

\* the iteration of the RunE loop for flag f returns an error: a required
\* flag omitted with no default, a multi-value parse error, an empty value
\* or a value outside the declared choices
FlagFails(f) ==
    LET fs == cmdspec.Flags[f]
        r  == resolveValue(fs, supplied[f])
    IN  r.err \/ choicesError(fs, r.val)

\* C3: text is on standard output only when every declared flag has been
\* resolved and validated and the run has ended without error; a run in
\* which some flag fails never prints and never ends successfully, in
\* whatever order the flags are visited.
NoPartialOutput ==
    /\ stdout # <<>> => (pc = "done" /\ pending = {})
    /\ pc = "error" => stdout = <<>>
    /\ (\E f \in DOMAIN cmdspec.Flags : FlagFails(f)) => (stdout = <<>> /\ pc # "done")

\* one flag was resolved and validated, then the other failed: nothing is
\* printed
NoPartialOutputWitness ==
    /\ pc = "error"
    /\ Cardinality(pending) = 1
    /\ \E f \in BindFlags \ pending : cmdspec.Flags[f].Value.vals # <<>>
    /\ stdout = <<>>

\* the value sequence the declared default of flag f denotes
DeclaredDefault(f) ==
    IF declared[f].multi
    THEN ParseMultiValues(declared[f].multiFormat,
                          Slice(FALSE, declared[f].defaultRaw)).out.vals
    ELSE <<declared[f].defaultRaw[Len(declared[f].defaultRaw)]>>

\* C4: a declared flag that the user omits and that has a declared default
\* is resolved without error, and its final value is exactly the declared
\* default value sequence.
DefaultOnOmission ==
    \A f \in DOMAIN declared :
        (~supplied[f].changed /\ declared[f].hasDefault)
            => /\ ~(pc = "error" /\ flagName = f /\ f \in pending)
               /\ f \notin pending => cmdspec.Flags[f].Value.vals = DeclaredDefault(f)


\* C30: when a declared flag is not required, has no declared default and is
\* omitted by the user, no validation error is raised for that flag, also
\* when the flag declares a non-empty set of choices, for both single and
\* multi-valued flags.
OmittedOptionalIsNoError ==
    \A f \in DOMAIN declared :
        (~declared[f].required /\ ~declared[f].hasDefault /\ ~supplied[f].changed)
            => ~(pc = "error" /\ flagName = f /\ f \in pending)

\* the same for flags that declare no choices
OmittedOptionalWithoutChoicesIsNoError ==
    \A f \in DOMAIN declared :
        (/\ ~declared[f].required /\ ~declared[f].hasDefault /\ ~supplied[f].changed
         /\ Len(cmdspec.Flags[f].Choices.vals) = 0)
            => ~(pc = "error" /\ flagName = f /\ f \in pending)

-----------------------------------------------------------------------------
(* Export section: a set of resolved flags at the end of RunE *)

\* most flags declared in the export section
MaxFlags == 3

ExportNames  == {<<"b">>, <<"a", "-", "b">>, <<"B">>, <<"a", "b">>}
EnvNames     == {<<>>, <<"M", "Y">>}
EnvPrefixes  == {<<>>, <<"P", "_">>}
ShellTypes   == {"sh", "powershell", "cmd", "auto"}
ExportValues == {<<"i", "t", SQ, "s">>, <<"a", DQ>>}

\* the state when the loop of RunE has resolved every flag: single-valued
\* optional flags, each passed one value
ExportInit ==
    /\ ShellIdle /\ ParseIdle /\ RangeIdle /\ FilterIdle /\ CodecIdle /\ ArgsIdle
    /\ \E names \in SUBSET ExportNames :
         /\ Cardinality(names) \in 1..MaxFlags
         /\ \E v \in ExportValues, prefix \in EnvPrefixes, st \in ShellTypes,
               envs \in [names -> EnvNames], exps \in [names -> BOOLEAN] :
              \E ds \in {[f \in names |->
                             FlagDecl(FALSE, <<"comma">>, FALSE, FALSE, <<>>, <<>>,
                                      envs[f], exps[f])]} :
                  /\ declared = ds
                  /\ supplied = [f \in names |-> Passed(<<v>>)]
                  /\ cmdspec = CmdSpec(prefix, st,
                         [f \in names |->
                             With(collectFlag(ds[f]).fs, LAMBDA fs :
                                 [fs EXCEPT !.Value = resolveValue(fs, Passed(<<v>>)).val])])
    /\ pending = {}
    /\ flagName = <<>>
    /\ pc = "run"
    /\ stdout = <<>>

ExportNext == Export

ExportSpec == ExportInit /\ [][ExportNext]_vars

\* the dialects a successful run of a CmdSpec may have written
DialectsOf(spec) ==
    IF spec.ShellType = "auto" THEN {"sh", "powershell", "cmd"} ELSE {spec.ShellType}

\* the text a run prints when it writes the flags in order keys under the
\* variable names name[f]
Printed(dialect, keys, name) ==
    Join([i \in 1..Len(keys) |->
             Line(dialect, name[keys[i]],
                  OutputMultiValues(cmdspec.Flags[keys[i]].MultiFormat,
                                    cmdspec.Flags[keys[i]].Value.vals).out,
                  cmdspec.Flags[keys[i]].Export)],
         LineSep(dialect)) \o <<LF>>

\* the flag names in ascending lexicographic order: position i holds the
\* name that has i - 1 names below it
Ascending(names) ==
    [i \in 1..Cardinality(names) |->
        CHOOSE k \in names : Cardinality({j \in names : StrLess(j, k)}) = i - 1]

\* prefix + base: base is the explicit name when set, else the flag name
\* upper-cased with every "-" replaced by "_"
PrefixPlusBase(f) ==
    cmdspec.EnvPrefix \o
        (IF cmdspec.Flags[f].EnvName # <<>> THEN cmdspec.Flags[f].EnvName
         ELSE [i \in 1..Len(f) |-> IF f[i] = "-" THEN "_" ELSE ToUpper(<<f[i]>>)[1]])

DeterministicOrder ==
    pc = "done" =>
        \E dialect \in DialectsOf(cmdspec) :
            stdout = Printed(dialect, Ascending(DOMAIN cmdspec.Flags),
                             [f \in DOMAIN cmdspec.Flags |->
                                 calcEnvName(cmdspec.Flags[f], f, cmdspec.EnvPrefix)])

\* three flags were printed, among them an upper-case and a hyphenated name
DeterministicOrderWitness ==
    /\ pc = "done"
    /\ Cardinality(DOMAIN cmdspec.Flags) = 3
    /\ {<<"B">>, <<"a", "-", "b">>} \subseteq DOMAIN cmdspec.Flags

\* the literal with its first and its last character, the outermost pair of
\* double quotes, removed
OuterPairRemoved(lit) == SubSeq(lit, 2, Len(lit) - 1)

\* the text a cmd run prints when the statement of a non-exported flag is
\* set "NAME=, the literal less its outermost pair of quotes, and a quote
PrintedCmdSession(keys) ==
    Join([i \in 1..Len(keys) |->
             With(OutputMultiValues(cmdspec.Flags[keys[i]].MultiFormat,
                                    cmdspec.Flags[keys[i]].Value.vals).out,
                  LAMBDA val :
                      IF cmdspec.Flags[keys[i]].Export
                      THEN CmdLine(calcEnvName(cmdspec.Flags[keys[i]], keys[i],
                                               cmdspec.EnvPrefix), val, TRUE)
                      ELSE Chars("set ") \o <<DQ>>
                               \o calcEnvName(cmdspec.Flags[keys[i]], keys[i],
                                              cmdspec.EnvPrefix)
                               \o <<"=">> \o OuterPairRemoved(buildCmdLiteral(val))
                               \o <<DQ>>)],
         LineSep("cmd")) \o <<LF>>

\* C27: for every value, the statement emitted for a non-exported flag under
\* the cmd dialect is set "NAME= followed by the encoded literal with exactly
\* its first and its last double-quote character removed, followed by a
\* closing double quote; no character that encodes part of the value is
\* removed.
CmdSessionStatement ==
    (pc = "done" /\ cmdspec.ShellType = "cmd") =>
        stdout = PrintedCmdSession(Ascending(DOMAIN cmdspec.Flags))

-----------------------------------------------------------------------------
(* Filter section: one NaturalRangeFilter, parsed from a text or written as
   a struct literal, and the methods applied to it *)

\* the most tokens a filter text has, and the most members a literal has
MaxToks == 2

FilterNums == 0..MaxNum

\* the tokens a filter text is built from: the documented forms, -N-, and
\* forms the parser rejects
FilterTokens ==
    {Itoa(n) : n \in FilterNums}
        \cup {Itoa(n) \o <<"-">> : n \in FilterNums}
        \cup {<<"-">> \o Itoa(n) : n \in FilterNums}
        \cup {Itoa(a) \o <<"-">> \o Itoa(b) : a \in FilterNums, b \in FilterNums}
        \cup {<<"-">> \o Itoa(n) \o <<"-">> : n \in FilterNums}
        \cup {<<>>, <<"-", "-">>, <<"a">>, <<"-", "a", "-">>, <<"a", "l", "l">>,
              <<" ", "1", " ">>, <<"1", "-", "-", "2">>}

FilterTexts ==
    {Join(toks, <<"_">>) : toks \in UNION {[1..k -> FilterTokens] : k \in 1..MaxToks}}

\* the members of a filter written as a struct literal
LiteralRanges ==
    {NewInclusiveIntRange(a, b) : a \in -1..MaxNum, b \in -1..MaxNum}
        \cup {NewGreaterOrEqualThanIntRange(a) : a \in -1..MaxNum}
        \cup {NewLessOrEqualThanIntRange(a) : a \in -1..MaxNum}
        \cup {IntRange(a, FALSE, MaxNum, FALSE, FALSE, FALSE) : a \in -1..MaxNum}
        \cup {NewUnboundedIntRange}

LiteralFilters == UNION {[1..k -> LiteralRanges] : k \in 0..MaxToks}

\* the integers handed to Test
FilterProbes == -1..(MaxNum + 1)

FilterInit ==
    /\ \/ ftext \in FilterTexts /\ filter = NotBuilt /\ fop = "none"
       \/ ftext = <<>> /\ fop = "new"
          /\ \E rs \in LiteralFilters : filter = Built(Filter(rs), FALSE)
    /\ fres = NoFRes
    /\ ShellIdle /\ ParseIdle /\ RangeIdle /\ BindIdle /\ CodecIdle /\ ArgsIdle

\* NewNaturalRangeFilter(ftext)
ParseFilter ==
    /\ ~filter.done
    /\ filter' = Built(NewNaturalRangeFilter(ftext), TRUE)
    /\ fop' = "new"
    /\ UNCHANGED <<ftext, fres>>
    /\ UNCHANGED <<shellVars, parseVars, rangeVars, bindVars, codecVars, argsVars>>

\* f.Normalize()
DoNormalize ==
    /\ filter.done /\ ~filter.err /\ fop = "new"
    /\ fop' = "Normalize"
    /\ fres' = [fres EXCEPT !.norm = Normalize(filter.Ranges)]
    /\ UNCHANGED <<ftext, filter>>
    /\ UNCHANGED <<shellVars, parseVars, rangeVars, bindVars, codecVars, argsVars>>

\* NaturalRangeFilter{Ranges: norm}.Normalize() for the norm just returned
DoRenormalize ==
    /\ fop = "Normalize"
    /\ fop' = "Renormalize"
    /\ fres' = [fres EXCEPT !.again = Filter(Normalize(fres.norm))]
    /\ UNCHANGED <<ftext, filter>>
    /\ UNCHANGED <<shellVars, parseVars, rangeVars, bindVars, codecVars, argsVars>>

\* f.Test(n), after f.Normalize()
DoTest ==
    /\ fop = "Normalize"
    /\ fop' = "Test"
    /\ \E n \in FilterProbes :
          fres' = [fres EXCEPT !.n = n, !.accepted = Test(filter.Ranges, n)]
    /\ UNCHANGED <<ftext, filter>>
    /\ UNCHANGED <<shellVars, parseVars, rangeVars, bindVars, codecVars, argsVars>>

\* f.String()
DoString ==
    /\ filter.done /\ ~filter.err /\ fop = "new"
    /\ fop' = "String"
    /\ fres' = [fres EXCEPT !.str = String(filter.Ranges)]
    /\ UNCHANGED <<ftext, filter>>
    /\ UNCHANGED <<shellVars, parseVars, rangeVars, bindVars, codecVars, argsVars>>

\* NewNaturalRangeFilter(f.String()) for the string just returned
DoReparse ==
    /\ fop = "String"
    /\ fop' = "Reparse"
    /\ fres' = [fres EXCEPT !.again = NewNaturalRangeFilter(fres.str)]
    /\ UNCHANGED <<ftext, filter>>
    /\ UNCHANGED <<shellVars, parseVars, rangeVars, bindVars, codecVars, argsVars>>

\* f.IsAllNatural()
DoIsAllNatural ==
    /\ filter.done /\ ~filter.err /\ fop = "new"
    /\ fop' = "IsAllNatural"
    /\ fres' = [fres EXCEPT !.allNatural = IsAllNatural(filter.Ranges)]
    /\ UNCHANGED <<ftext, filter>>
    /\ UNCHANGED <<shellVars, parseVars, rangeVars, bindVars, codecVars, argsVars>>

FilterNext ==
    \/ ParseFilter \/ DoNormalize \/ DoRenormalize \/ DoTest \/ DoString \/ DoReparse
    \/ DoIsAllNatural

FilterSpec == FilterInit /\ [][FilterNext]_vars

\* C11: for every NaturalRangeFilter f, normalizing the filter whose Ranges
\* are f.Normalize() returns the same list of ranges as f.Normalize().
NormalizeIdempotent ==
    fop = "Renormalize" => fres.again.Ranges = fres.norm

\* C12: for every NaturalRangeFilter f and every two consecutive members a, b
\* of f.Normalize(), a is upper-bounded and a.Max + 1 < b.Min.
NormalizedSortedSeparated ==
    fop = "Normalize" =>
        \A i \in 1..(Len(fres.norm) - 1) :
            /\ IsUpperBounded(fres.norm[i])
            /\ fres.norm[i].Max + 1 < fres.norm[i + 1].Min

\* a filter whose two members were written in descending order was
\* normalized into two members
NormalizedSortedSeparatedWitness ==
    /\ fop = "Normalize" /\ Len(filter.Ranges) = 2 /\ Len(fres.norm) = 2
    /\ IsValid(filter.Ranges[1]) /\ IsValid(filter.Ranges[2])
    /\ ~filter.Ranges[1].MaxUnbounded /\ ~filter.Ranges[2].MaxUnbounded
    /\ filter.Ranges[1].Min > filter.Ranges[2].Max
    /\ fres.norm[1].Max + 1 < fres.norm[2].Min

RECURSIVE DigitRuns(_, _, _)
\* the numbers written in s, in order: its maximal runs of digits, cur being
\* the run being read
DigitRuns(s, cur, acc) ==
    IF s = <<>> THEN (IF cur = <<>> THEN acc ELSE Append(acc, DigitsValue(cur, 0)))
    ELSE IF IsDigit(Head(s)) THEN DigitRuns(Tail(s), Append(cur, Head(s)), acc)
    ELSE DigitRuns(Tail(s), <<>>,
                   IF cur = <<>> THEN acc ELSE Append(acc, DigitsValue(cur, 0)))

\* the tokens of a filter text, as the text writes them
TokensOf(v) == Split(TrimSpace(v), "_", <<>>)

\* some number written in a token is smaller than the last number written
\* in an earlier token
Decreasing(v) ==
    \E i \in 1..Len(TokensOf(v)) : \E j \in (i + 1)..Len(TokensOf(v)) :
        /\ DigitRuns(TokensOf(v)[i], <<>>, <<>>) # <<>>
        /\ \E k \in 1..Len(DigitRuns(TokensOf(v)[j], <<>>, <<>>)) :
              DigitRuns(TokensOf(v)[j], <<>>, <<>>)[k]
                < DigitRuns(TokensOf(v)[i], <<>>, <<>>)[Len(DigitRuns(TokensOf(v)[i], <<>>, <<>>))]

\* C13: NewNaturalRangeFilter rejects with a parse error every input in
\* which some number written in a token is smaller than the last number
\* written in an earlier token.
DecreasingRejected ==
    (filter.done /\ fop = "new" /\ Decreasing(ftext)) => filter.err

\* tok is exactly -N- with N written in digits
IsDashNDash(tok) ==
    /\ Len(tok) >= 3 /\ Head(tok) = "-" /\ tok[Len(tok)] = "-"
    /\ \A i \in 2..(Len(tok) - 1) : IsDigit(tok[i])

\* some token of v holds two or more dashes and is not of the form -N-
HasOtherMultiDash(v) ==
    \E i \in 1..Len(TokensOf(v)) :
        /\ Count(TokensOf(v)[i], "-") >= 2
        /\ ~IsDashNDash(TrimSpace(TokensOf(v)[i]))

\* C14: NewNaturalRangeFilter rejects every input that has a token holding
\* two or more dashes unless that token is exactly of the form -N-, at any
\* position of the input.
MultiDashRejected ==
    (filter.done /\ fop = "new" /\ HasOtherMultiDash(ftext)) => filter.err

\* C19: for every filter f returned by NewNaturalRangeFilter and every
\* integer n >= 0, f.Test(n) is true if and only if some member of
\* f.Normalize() contains n.
NormalizePreservesAccepted ==
    (fop = "Test" /\ filter.fromText /\ fres.n >= 0) =>
        (fres.accepted <=> \E i \in 1..Len(fres.norm) : Contains(fres.norm[i], fres.n))

\* the non-negative integers Test is asked about when two filters are compared
Naturals == {n \in FilterProbes : n >= 0}

\* C20: for every filter f returned by NewNaturalRangeFilter,
\* NewNaturalRangeFilter(f.String()) succeeds and the reparsed filter accepts
\* exactly the same non-negative integers as f.
StringRoundTrip ==
    (fop = "Reparse" /\ filter.fromText) =>
        /\ ~fres.again.err
        /\ \A n \in Naturals : Test(fres.again.Ranges, n) = Test(filter.Ranges, n)

\* C26: for every NaturalRangeFilter f, f.IsAllNatural() is true if and only
\* if f.Test(n) is true for every integer n >= 0, whatever the order of
\* f.Ranges.
IsAllNaturalExact ==
    fop = "IsAllNatural" =>
        (fres.allNatural <=> \A n \in Naturals : Test(filter.Ranges, n))

\* IsAllNatural answered true for a filter none of whose members covers the
\* naturals alone, the member that reaches 0 coming last
IsAllNaturalExactWitness ==
    /\ fop = "IsAllNatural" /\ fres.allNatural = TRUE
    /\ Len(filter.Ranges) = 2
    /\ \A i \in 1..2 : \E n \in Naturals : ~Contains(filter.Ranges[i], n)
    /\ ~Contains(filter.Ranges[1], 0)

-----------------------------------------------------------------------------
(* Codec section: one format list and one string list handed to
   ParseMultiValues or to OutputMultiValues *)

\* the most names a format list has, and the most strings a value list has
MaxFormats == 2
MaxOccurrences == 2

\* the four format names and one name outside them
FormatNames == {"comma", "newline", "space", "json", "tab"}

FormatLists == UNION {[1..k -> FormatNames] : k \in 0..MaxFormats}

\* raw occurrences: plain, separated by each separator, with blank
\* fragments, and JSON
CodecStrings ==
    {TextX, TextEmpty, TextJsonArray, TextLines,
     <<"a", ",", " ", "b", " ", ",", "c">>, <<"a", ",", " ", ",", "b">>}

\* nil, and every list of at most MaxOccurrences strings
ValueLists ==
    {NilSlice} \cup {Slice(FALSE, vs) : vs \in UNION {[1..k -> CodecStrings] : k \in 0..MaxOccurrences}}

CodecInit ==
    /\ cfmt \in FormatLists /\ cvals \in ValueLists
    /\ cop = "new" /\ cres = [err |-> FALSE, out |-> <<>>]
    /\ ShellIdle /\ ParseIdle /\ RangeIdle /\ BindIdle /\ FilterIdle /\ ArgsIdle

\* ParseMultiValues(cfmt, cvals, flag)
DoParseMultiValues ==
    /\ cop = "new"
    /\ cop' = "Parse"
    /\ cres' = ParseMultiValues(cfmt, cvals)
    /\ UNCHANGED <<cfmt, cvals>>
    /\ UNCHANGED <<shellVars, parseVars, rangeVars, bindVars, filterVars, argsVars>>

\* OutputMultiValues(cfmt, cvals)
DoOutputMultiValues ==
    /\ cop = "new"
    /\ cop' = "Output"
    /\ cres' = OutputMultiValues(cfmt, cvals.vals)
    /\ UNCHANGED <<cfmt, cvals>>
    /\ UNCHANGED <<shellVars, parseVars, rangeVars, bindVars, filterVars, argsVars>>

CodecNext == DoParseMultiValues \/ DoOutputMultiValues

CodecSpec == CodecInit /\ [][CodecNext]_vars

\* a non-empty format list made of comma, newline and space only
IsSeparatorSet(fs) ==
    Len(fs) > 0 /\ \A i \in 1..Len(fs) : fs[i] \in {"comma", "newline", "space"}

\* C15: with a non-JSON format set (any combination of comma, newline,
\* space), every element of the sequence ParseMultiValues returns is
\* non-empty and has no leading or trailing whitespace.
SplitElementsTrimmed ==
    (cop = "Parse" /\ IsSeparatorSet(cfmt) /\ ~cres.err) =>
        \A i \in 1..Len(cres.out.vals) :
            /\ cres.out.vals[i] # <<>>
            /\ TrimSpace(cres.out.vals[i]) = cres.out.vals[i]

\* the format list holds a name outside the four, or json with another name
IsBadFormatList(fs) ==
    \/ \E i \in 1..Len(fs) : fs[i] \notin {"comma", "newline", "space", "json"}
    \/ checkInStringSlice("json", fs) /\ Len(fs) > 1

\* C16: ParseMultiValues and OutputMultiValues each return an error whenever
\* the format list holds a name outside {comma, newline, space, json} and
\* whenever it holds json together with another format, for every value list.
BadFormatsRejected ==
    (cop \in {"Parse", "Output"} /\ IsBadFormatList(cfmt)) => cres.err

-----------------------------------------------------------------------------
(* Args section: one --args-range text declared, then one run of the
   generated command with k positional arguments *)

\* the numbers of positional arguments a run is given
ArgCounts == 0..(MaxNum + 1)

ArgsInit ==
    /\ argsRangeStr \in Texts
    /\ argsRange = NotParsed /\ args = -1 /\ argsErr = FALSE
    /\ ShellIdle /\ ParseIdle /\ RangeIdle /\ BindIdle /\ FilterIdle /\ CodecIdle

\* collectSpecs: NewIntRange(argsRangeStr, true), refused when LessThan(0)
DeclareArgsRange ==
    /\ ~argsRange.done
    /\ \E p \in {NewIntRange(argsRangeStr, TRUE)} :
          argsRange' = [done |-> TRUE, ok |-> p.ok /\ ~LessThan(p.r, 0), r |-> p.r,
                        emptyAsUnbounded |-> TRUE]
    /\ UNCHANGED <<argsRangeStr, args, argsErr>>
    /\ UNCHANGED <<shellVars, parseVars, rangeVars, bindVars, filterVars, codecVars>>

\* cobra calls realCmd.Args with the k positional arguments of the run
ValidateArgs ==
    /\ argsRange.done /\ argsRange.ok /\ args = -1
    /\ \E k \in ArgCounts : args' = k /\ argsErr' = ~Args(argsRange.r, k)
    /\ UNCHANGED <<argsRangeStr, argsRange>>
    /\ UNCHANGED <<shellVars, parseVars, rangeVars, bindVars, filterVars, codecVars>>

ArgsNext == DeclareArgsRange \/ ValidateArgs

ArgsSpec == ArgsInit /\ [][ArgsNext]_vars

\* C18: for every ArgsRange accepted at declaration and every count k >= 0,
\* the Args validator accepts a run with k positional arguments if and only
\* if ArgsRange.Contains(k).
ArgsCountCheck ==
    args >= 0 => (~argsErr <=> Contains(argsRange.r, args))

\* a bounded interval with an exclusive upper end was declared, and the run
\* with one argument fewer than that end was accepted
ArgsCountCheckWitness ==
    /\ args >= 0 /\ ~argsErr
    /\ ~argsRange.r.MinUnbounded /\ ~argsRange.r.MaxUnbounded
    /\ ~argsRange.r.MaxInclude /\ argsRange.r.Min < args
    /\ args = argsRange.r.Max - 1

====
